---- MODULE Spec2Model ----
(***************************************************************************)
(* Webhook payment ingestion: signature verification, payload validation,  *)
(* idempotency check, fee computation, persistence and audit logging.      *)
(*                                                                         *)
(* Text is a sequence of one-character strings (<<"U","S","D">>), so that  *)
(* upper-casing, regular expressions and parseInt are computed character   *)
(* by character.  An optional value is <<>> (absent) or <<v>> (present).   *)
(***************************************************************************)
EXTENDS Integers, Sequences, FiniteSets, TLC

VARIABLES
    pc,               \* per request: where its handler stands
    body,             \* per request: req.body after the JSON middleware
    sigOk,            \* per request: does its signature header verify (isValid)
    error,            \* per request: the error caught in processWebhook
    savedTransaction, \* per request: the record returned by transactionRepo.save
    res,              \* per request: the HTTP response sent
    transactions,     \* table transactions
    auditLogs,        \* table audit_logs
    auditCalls,       \* per request: the logWebhookEvent calls made, in order
    storeCalls,       \* per request: results of its transactionRepo calls, in order
    answeredBefore,   \* per request: the requests already answered when it arrived
    tsIn,             \* arguments of a verifyWithTimestamp call
    tsOut,            \* its result
    verifyCall,       \* a call of verify: arguments and result
    validateCall,     \* a call of TransactionValidator.validate: payload and result
    calcCall,         \* a call of calculateDerivedFields: amount and result
    dupCall,          \* a call of checkDuplicate: the table, arguments and result
    authCall,         \* a run of the verifySignature middleware: request and result
    persistCall       \* validation and insert of one payload: payload and result

vars == <<pc, body, sigOk, error, savedTransaction, res, transactions, auditLogs,
          auditCalls, storeCalls, answeredBefore, tsIn, tsOut,
          verifyCall, validateCall, calcCall, dupCall, authCall, persistCall>>

pipelineVars == <<pc, body, sigOk, error, savedTransaction, res, transactions,
                  auditLogs, auditCalls, storeCalls, answeredBefore>>

\* The calls of the pure functions checked on their own.
callVars == <<tsIn, tsOut, verifyCall, validateCall, calcCall, dupCall, authCall,
              persistCall>>

(***************************************************************************)
(* Bounds of the model.                                                    *)
(***************************************************************************)
NumReq == 2   \* requests in flight
MaxT == 3     \* spread of the clock and timestamp values tried
MaxCents == 2000  \* largest amount, in cents, given to calculateDerivedFields

None == <<>>
Some(v) == <<v>>
IsSome(o) == o # <<>>
Get(o) == o[1]

(***************************************************************************)
(* Text helpers.                                                           *)
(***************************************************************************)
Digits == <<"0", "1", "2", "3", "4", "5", "6", "7", "8", "9">>

IsDigit(c) == \E i \in 1..10 : Digits[i] = c

DigitVal(c) == (CHOOSE i \in 1..10 : Digits[i] = c) - 1

IsSpace(c) == c \in {" ", "\t", "\n"}

RECURSIVE Dec(_)
\* Number.prototype.toString of a non-negative integer, and of a negative one.
Dec(n) ==
    IF n < 0 THEN <<"-">> \o Dec(0 - n)
    ELSE IF n < 10 THEN <<Digits[n + 1]>>
    ELSE Dec(n \div 10) \o <<Digits[(n % 10) + 1]>>

RECURSIVE SkipSpace(_)
SkipSpace(s) == IF s # <<>> /\ IsSpace(Head(s)) THEN SkipSpace(Tail(s)) ELSE s

RECURSIVE DigitPrefix(_)
\* The longest prefix of s made of decimal digits.
DigitPrefix(s) ==
    IF s # <<>> /\ IsDigit(Head(s)) THEN <<Head(s)>> \o DigitPrefix(Tail(s)) ELSE <<>>

RECURSIVE DigitsValue(_, _)
DigitsValue(s, acc) ==
    IF s = <<>> THEN acc ELSE DigitsValue(Tail(s), acc * 10 + DigitVal(Head(s)))

\* parseInt(timestamp): leading white space is skipped, one sign is read, then
\* the longest run of decimal digits; what follows the digits is ignored.  The
\* result is absent (NaN) when no digit is read.  (Hexadecimal "0x" prefixes are
\* not among the headers tried.)
ParseInt(s) ==
    LET t == SkipSpace(s)
        neg == t # <<>> /\ Head(t) = "-"
        u == IF t # <<>> /\ Head(t) \in {"-", "+"} THEN Tail(t) ELSE t
        d == DigitPrefix(u)
    IN  IF d = <<>> THEN None
        ELSE Some(IF neg THEN 0 - DigitsValue(d, 0) ELSE DigitsValue(d, 0))

Abs(n) == IF n < 0 THEN 0 - n ELSE n

(***************************************************************************)
(* SignatureValidator.  The HMAC-SHA256 hex digest of a message under the  *)
(* secret is an ideal MAC: 64 characters that name the key and the message *)
(* and nothing else.  Other header values tried: the digest with one       *)
(* character changed (same length) and a truncated digest.                 *)
(***************************************************************************)
HexLen == 64

Secret == "WEBHOOK_SECRET"

HmacHex(key, msg) == [len |-> HexLen, kind |-> "hmac", key |-> key, msg |-> msg]

Tampered(sig) == [sig EXCEPT !.kind = "tampered"]

Truncated(sig) == [sig EXCEPT !.len = HexLen - 1, !.kind = "truncated"]

\* crypto.timingSafeEqual: throws when the lengths differ, which verify catches.
TimingSafeEqualThrows(a, b) == a.len # b.len

TimingSafeEqualMutKeyOnly(a, b) == a.key = b.key

TimingSafeEqual(a, b) == a = b

\* verify(payload, receivedSignature)
Verify(payload, receivedSignature) ==
    LET expectedSignature == HmacHex(Secret, payload)
    IN  IF TimingSafeEqualThrows(receivedSignature, expectedSignature)
        THEN FALSE
        ELSE TimingSafeEqual(receivedSignature, expectedSignature)

DefaultTolerance == 300

OutsideToleranceMutInclusive(currentTime, payloadTime, toleranceSeconds) ==
    Abs(currentTime - payloadTime) >= toleranceSeconds

OutsideTolerance(currentTime, payloadTime, toleranceSeconds) ==
    Abs(currentTime - payloadTime) > toleranceSeconds

\* verifyWithTimestamp(payload, receivedSignature, timestamp, toleranceSeconds)
\* with currentTime = Math.floor(Date.now() / 1000)
VerifyWithTimestamp(payload, receivedSignature, timestamp, toleranceSeconds, currentTime) ==
    LET payloadTime == ParseInt(timestamp)
    IN  IF ~IsSome(payloadTime) THEN FALSE
        ELSE IF OutsideTolerance(currentTime, Get(payloadTime), toleranceSeconds) THEN FALSE
        ELSE Verify(timestamp \o <<".">> \o payload, receivedSignature)

(***************************************************************************)
(* JSON values.  Every value has the same three fields: its type t, its    *)
(* text s (strings) and its number n (numbers, in thousandths: 100.50 is   *)
(* 100500, so that a third decimal digit can be told from two).  A         *)
(* positive number below 0.000001 has n = 0 and carries in s the text that *)
(* Number.prototype.toString gives it, which is in exponent notation.      *)
(***************************************************************************)
Undef == [t |-> "undefined", s |-> <<>>, n |-> 0]
Null == [t |-> "null", s |-> <<>>, n |-> 0]
Str(s) == [t |-> "string", s |-> s, n |-> 0]
Num(n) == [t |-> "number", s |-> <<>>, n |-> n]
NumExp(text) == [t |-> "number", s |-> text, n |-> 0]

\* !v
Falsy(v) ==
    \/ v.t \in {"undefined", "null"}
    \/ v.t = "string" /\ v.s = <<>>
    \/ v.t = "number" /\ v.n = 0 /\ v.s = <<>>

Lower == <<"a", "b", "c", "d", "e", "f", "g", "h", "i", "j", "k", "l", "m",
           "n", "o", "p", "q", "r", "s", "t", "u", "v", "w", "x", "y", "z">>

Upper == <<"A", "B", "C", "D", "E", "F", "G", "H", "I", "J", "K", "L", "M",
           "N", "O", "P", "Q", "R", "S", "T", "U", "V", "W", "X", "Y", "Z">>

IsUpper(c) == \E i \in 1..26 : Upper[i] = c

ToUpperChar(c) ==
    IF \E i \in 1..26 : Lower[i] = c
    THEN Upper[CHOOSE i \in 1..26 : Lower[i] = c]
    ELSE c

\* String.prototype.toUpperCase
ToUpperCase(s) == [i \in 1..Len(s) |-> ToUpperChar(s[i])]

RECURSIVE Join(_)
\* The characters of s as one string, for error messages.
Join(s) == IF s = <<>> THEN "" ELSE Head(s) \o Join(Tail(s))

(***************************************************************************)
(* WebhookPayload, as JSON.parse returns it: null, a primitive or array    *)
(* (kind "other": every property read is undefined), or an object.  data,  *)
(* sender and receiver are absent when they are not objects.               *)
(***************************************************************************)
Party(id, name, email, country) ==
    [id |-> id, name |-> name, email |-> email, country |-> country]

PayloadNull ==
    [kind |-> "null", event_id |-> Undef, event_type |-> Undef, data |-> None]

PayloadOther ==
    [kind |-> "other", event_id |-> Undef, event_type |-> Undef, data |-> None]

\* payload.data?.f
DataField(payload, f) == IF IsSome(payload.data) THEN Get(payload.data)[f] ELSE Undef

\* payload.data?.sender?.f and payload.data?.receiver?.f
PartyField(payload, who, f) ==
    IF IsSome(payload.data) /\ IsSome(Get(payload.data)[who])
    THEN Get(Get(payload.data)[who])[f]
    ELSE Undef

(***************************************************************************)
(* Errors: name is the class, field and message those of ValidationError,  *)
(* existingTransaction that of DuplicateTransactionError.                  *)
(***************************************************************************)
ValidationError(field, message) ==
    [name |-> "ValidationError", field |-> field, message |-> message,
     existingTransaction |-> None]

DuplicateTransactionError(existing) ==
    [name |-> "DuplicateTransactionError", field |-> "",
     message |-> "Transaction already processed", existingTransaction |-> Some(existing)]

TypeError ==
    [name |-> "TypeError", field |-> "",
     message |-> "Cannot read properties of null", existingTransaction |-> None]

\* The driver's error for a violated UNIQUE constraint.
UniqueViolation ==
    [name |-> "QueryFailedError", field |-> "",
     message |-> "duplicate key value violates unique constraint",
     existingTransaction |-> None]

\* Any other failure of a storage call.
StorageError ==
    [name |-> "QueryFailedError", field |-> "",
     message |-> "storage failure", existingTransaction |-> None]

\* What logWebhookEvent would raise if it did not catch.
AuditError ==
    [name |-> "QueryFailedError", field |-> "",
     message |-> "audit write failed", existingTransaction |-> None]

(***************************************************************************)
(* TransactionValidator.  Every check returns the error it throws, if any. *)
(***************************************************************************)
RequiredFields(payload) ==
    << <<"event_id", payload.event_id>>,
       <<"event_type", payload.event_type>>,
       <<"data.transaction_id", DataField(payload, "transaction_id")>>,
       <<"data.amount", DataField(payload, "amount")>>,
       <<"data.currency", DataField(payload, "currency")>>,
       <<"data.sender.id", PartyField(payload, "sender", "id")>>,
       <<"data.sender.name", PartyField(payload, "sender", "name")>>,
       <<"data.sender.email", PartyField(payload, "sender", "email")>>,
       <<"data.sender.country", PartyField(payload, "sender", "country")>>,
       <<"data.receiver.id", PartyField(payload, "receiver", "id")>>,
       <<"data.receiver.name", PartyField(payload, "receiver", "name")>>,
       <<"data.receiver.email", PartyField(payload, "receiver", "email")>>,
       <<"data.receiver.country", PartyField(payload, "receiver", "country")>>,
       <<"data.status", DataField(payload, "status")>>,
       <<"data.payment_method", DataField(payload, "payment_method")>> >>

\* value === undefined || value === null || value === ""
IsMissing(value) ==
    \/ value.t \in {"undefined", "null"}
    \/ value.t = "string" /\ value.s = <<>>

ValidateRequired(payload) ==
    IF payload.kind = "null" THEN Some(TypeError)
    ELSE LET fields == RequiredFields(payload)
             missing == {i \in 1..Len(fields) : IsMissing(fields[i][2])}
         IN  IF missing = {} THEN None
             ELSE LET first == CHOOSE i \in missing : \A j \in missing : i <= j
                  IN  Some(ValidationError(fields[first][1],
                                           fields[first][1] \o " is required"))

ValidateAmountMutSign(amount) ==
    IF amount.t # "number"
    THEN Some(ValidationError("amount", "Amount must be a valid number"))
    ELSE IF amount.n % 10 # 0
    THEN Some(ValidationError("amount", "Amount cannot have more than 2 decimal places"))
    ELSE None

RECURSIVE UpToDot(_)
\* The text before the first "." (all of it when there is none).
UpToDot(text) ==
    IF text = <<>> \/ Head(text) = "." THEN <<>>
    ELSE <<Head(text)>> \o UpToDot(Tail(text))

RECURSIVE AfterDot(_)
\* text.split(".")[1]: what lies between the first "." and the next one.
AfterDot(text) ==
    IF text = <<>> THEN None
    ELSE IF Head(text) = "." THEN Some(UpToDot(Tail(text)))
    ELSE AfterDot(Tail(text))

\* amount.toString().split(".")[1]?.length, undefined counting as 0
FractionLength(amount) ==
    IF amount.s # <<>>
    THEN IF IsSome(AfterDot(amount.s)) THEN Len(Get(AfterDot(amount.s))) ELSE 0
    ELSE IF amount.n % 1000 = 0 THEN 0
    ELSE IF amount.n % 100 = 0 THEN 1
    ELSE IF amount.n % 10 = 0 THEN 2
    ELSE 3

\* validateAmount(amount); numbers are finite here, NaN is no JSON value
ValidateAmount(amount) ==
    IF amount.t # "number"
    THEN Some(ValidationError("amount", "Amount must be a valid number"))
    ELSE IF amount.n < 0 \/ (amount.n = 0 /\ amount.s = <<>>)
    THEN Some(ValidationError("amount", "Amount must be a positive number"))
    ELSE IF FractionLength(amount) > 2
    THEN Some(ValidationError("amount", "Amount cannot have more than 2 decimal places"))
    ELSE None

VALID_CURRENCIES ==
    << <<"U", "S", "D">>, <<"E", "U", "R">>, <<"G", "B", "P">>,
       <<"I", "N", "R">>, <<"J", "P", "Y">> >>

ValidateCurrency(currency) ==
    IF Falsy(currency) \/ currency.t # "string"
    THEN Some(ValidationError("currency", "Currency is required"))
    ELSE IF ~\E i \in 1..Len(VALID_CURRENCIES) : VALID_CURRENCIES[i] = ToUpperCase(currency.s)
    THEN Some(ValidationError("currency",
             "Currency must be a valid ISO code. Supported: USD, EUR, GBP, INR, JPY"))
    ELSE None

VALID_STATUSES ==
    << <<"p", "e", "n", "d", "i", "n", "g">>,
       <<"c", "o", "m", "p", "l", "e", "t", "e", "d">>,
       <<"f", "a", "i", "l", "e", "d">> >>

ValidateStatus(status) ==
    IF Falsy(status) \/ status.t # "string"
    THEN Some(ValidationError("status", "Status is required"))
    ELSE IF ~\E i \in 1..Len(VALID_STATUSES) : VALID_STATUSES[i] = status.s
    THEN Some(ValidationError("status", "Status must be one of: pending, completed, failed"))
    ELSE None

\* /^[A-Z]{2}$/
Iso2(s) == Len(s) = 2 /\ IsUpper(s[1]) /\ IsUpper(s[2])

ValidateCountry(country, index) ==
    IF Falsy(country) \/ country.t # "string"
    THEN Some(ValidationError("country_" \o Join(Dec(index)), "Country code is required"))
    ELSE IF ~Iso2(ToUpperCase(country.s))
    THEN Some(ValidationError("country_" \o Join(Dec(index)),
             "Country code must be 2-letter ISO code (e.g., US, IN, GB). Received: "
                 \o Join(country.s)))
    ELSE None

\* validateCountryCodes(sender.country, receiver.country): forEach, first throw wins
ValidateCountryCodes(c0, c1) ==
    IF IsSome(ValidateCountry(c0, 0)) THEN ValidateCountry(c0, 0)
    ELSE ValidateCountry(c1, 1)

\* /^[^\s@]+@[^\s@]+\.[^\s@]+$/
EmailRegex(s) ==
    \E i \in 2..Len(s) :
        /\ s[i] = "@"
        /\ \A k \in 1..Len(s) : k # i => ~IsSpace(s[k]) /\ s[k] # "@"
        /\ \E j \in (i + 2)..(Len(s) - 1) : s[j] = "."

ValidateEmail(email, fieldName) ==
    IF Falsy(email) \/ email.t # "string"
    THEN Some(ValidationError(fieldName, fieldName \o " is required"))
    ELSE IF ~EmailRegex(email.s)
    THEN Some(ValidationError(fieldName, fieldName \o " must be a valid email address"))
    ELSE None

\* The checks of validate in the order it runs them.
ValidateSteps(payload) ==
    << ValidateRequired(payload),
       ValidateAmount(DataField(payload, "amount")),
       ValidateCurrency(DataField(payload, "currency")),
       ValidateStatus(DataField(payload, "status")),
       ValidateCountryCodes(PartyField(payload, "sender", "country"),
                            PartyField(payload, "receiver", "country")),
       ValidateEmail(PartyField(payload, "sender", "email"), "sender.email"),
       ValidateEmail(PartyField(payload, "receiver", "email"), "receiver.email") >>

ValidateMutLast(payload) ==
    LET steps == ValidateSteps(payload)
        failing == {i \in 1..Len(steps) : IsSome(steps[i])}
    IN  IF failing = {} THEN None
        ELSE steps[CHOOSE i \in failing : \A j \in failing : i >= j]

\* TransactionValidator.validate: the first error thrown, or none.
Validate(payload) ==
    IF IsSome(ValidateRequired(payload))
    THEN ValidateRequired(payload)
    ELSE IF IsSome(ValidateAmount(DataField(payload, "amount")))
    THEN ValidateAmount(DataField(payload, "amount"))
    ELSE IF IsSome(ValidateCurrency(DataField(payload, "currency")))
    THEN ValidateCurrency(DataField(payload, "currency"))
    ELSE IF IsSome(ValidateStatus(DataField(payload, "status")))
    THEN ValidateStatus(DataField(payload, "status"))
    ELSE IF IsSome(ValidateCountryCodes(PartyField(payload, "sender", "country"),
                                        PartyField(payload, "receiver", "country")))
    THEN ValidateCountryCodes(PartyField(payload, "sender", "country"),
                              PartyField(payload, "receiver", "country"))
    ELSE IF IsSome(ValidateEmail(PartyField(payload, "sender", "email"), "sender.email"))
    THEN ValidateEmail(PartyField(payload, "sender", "email"), "sender.email")
    ELSE ValidateEmail(PartyField(payload, "receiver", "email"), "receiver.email")

(***************************************************************************)
(* TransactionCalculator.  Amounts are whole cents here (validation has    *)
(* passed).  amount * 0.02 is a double: when the exact fee ends on half a  *)
(* cent, toFixed(2) rounds the double, which lies just below or just above *)
(* the half.  TieBelowHalf lists the amounts up to 20.00 whose product     *)
(* lies below.                                                             *)
(***************************************************************************)
TieBelowHalf == {75, 225, 375, 525, 725, 775, 925, 1075, 1225, 1475, 1525, 1775, 1825}

FeeCentsMutFloor(cents) == (2 * cents) \div 100

\* parseFloat((amount * 0.02).toFixed(2)) in cents, for amounts up to 20.00 and
\* amounts whose exact fee does not end on half a cent.
FeeCents(cents) ==
    IF cents % 50 = 25
    THEN IF cents \in TieBelowHalf THEN (2 * cents) \div 100 ELSE (2 * cents) \div 100 + 1
    ELSE (2 * cents + 50) \div 100

\* calculateDerivedFields(amount), amount and results in thousandths
CalculateDerivedFields(amount) ==
    LET cents == amount.n \div 10
        processingFee == FeeCents(cents)
        netAmount == cents - processingFee
    IN  [processing_fee |-> Num(processingFee * 10), net_amount |-> Num(netAmount * 10)]

(***************************************************************************)
(* Storage: the transactions table with its two UNIQUE columns, and the    *)
(* audit_logs table with its NOT NULL columns.                             *)
(***************************************************************************)
FindOneByEventIdMutMiss(table, eventId) == None

\* transactionRepo.findOne({ where: { event_id: eventId } })
FindOneByEventId(table, eventId) ==
    IF \E t \in table : t.event_id = eventId
    THEN Some(CHOOSE t \in table : t.event_id = eventId)
    ELSE None

\* transactionRepo.findOne({ where: { transaction_id: transactionId } })
FindOneByTransactionId(table, transactionId) ==
    IF \E t \in table : t.transaction_id = transactionId
    THEN Some(CHOOSE t \in table : t.transaction_id = transactionId)
    ELSE None

CheckDuplicateMutTxnFirst(table, eventId, transactionId) ==
    LET existingByEvent == FindOneByEventId(table, eventId)
        existingByTxn == FindOneByTransactionId(table, transactionId)
    IN  IF IsSome(existingByTxn) THEN Some(DuplicateTransactionError(Get(existingByTxn)))
        ELSE IF IsSome(existingByEvent)
        THEN Some(DuplicateTransactionError(Get(existingByEvent)))
        ELSE None

\* checkDuplicate(eventId, transactionId) against a table that no other request
\* writes meanwhile: the error it throws, or none when it returns.
CheckDuplicate(table, eventId, transactionId) ==
    LET existingByEvent == FindOneByEventId(table, eventId)
        existingByTxn == FindOneByTransactionId(table, transactionId)
    IN  IF IsSome(existingByEvent) THEN Some(DuplicateTransactionError(Get(existingByEvent)))
        ELSE IF IsSome(existingByTxn)
        THEN Some(DuplicateTransactionError(Get(existingByTxn)))
        ELSE None

UniqueClashMutNone(table, row) == FALSE

\* event_id ... UNIQUE NOT NULL, transaction_id ... UNIQUE NOT NULL
UniqueClash(table, row) ==
    \E t \in table : t.event_id = row.event_id \/ t.transaction_id = row.transaction_id

\* DECIMAL(10, 2): at most eight digits before the decimal point
FitsDecimal(amount) == Abs(amount.n) \div 1000 < 100000000

DbInsertMutUpsert(table, row) ==
    [outcome |-> "saved",
     table |-> {t \in table : t.event_id # row.event_id
                              /\ t.transaction_id # row.transaction_id} \cup {row}]

DbInsertMutEventOnly(table, row) ==
    IF \E t \in table : t.event_id = row.event_id
    THEN [outcome |-> "unique", table |-> table]
    ELSE [outcome |-> "saved", table |-> table \cup {row}]

\* A number as a DECIMAL(10, 2) column keeps it: rounded to two decimals.
ToDecimal2(v) ==
    IF v.t # "number" THEN v
    ELSE IF v.n >= 0 THEN Num(((v.n + 5) \div 10) * 10)
    ELSE Num(0 - (((0 - v.n) + 5) \div 10) * 10)

\* The row as the table holds it.
StoredRow(row) ==
    [row EXCEPT !.amount = ToDecimal2(@),
                !.processing_fee = ToDecimal2(@),
                !.net_amount = ToDecimal2(@)]

\* INSERT INTO transactions: refused when a UNIQUE column clashes, else the row
\* is added and no other row is touched.
DbInsert(table, row) ==
    IF UniqueClash(table, row)
    THEN [outcome |-> "unique", table |-> table]
    ELSE [outcome |-> "saved", table |-> table \cup {StoredRow(row)}]

DbInsertFailedMutPartial(table, row) == table \cup {row}

\* An INSERT that the storage rejects for another reason than a UNIQUE column:
\* the statement has no effect on the table.
DbInsertFailed(table, row) == table

\* uuid_generate_v4(): a fresh id; rows are never deleted, so the row count names one.
NewId(table) == Cardinality(table) + 1

CreateTransactionMutNoDerived(payload, derivedFields, now, id) ==
    LET data == Get(payload.data)
        sender == Get(data.sender)
        receiver == Get(data.receiver)
    IN  [id |-> id,
         event_id |-> payload.event_id,
         transaction_id |-> data.transaction_id,
         amount |-> data.amount,
         currency |-> Str(ToUpperCase(data.currency.s)),
         sender_id |-> sender.id,
         sender_name |-> sender.name,
         sender_country |-> Str(ToUpperCase(sender.country.s)),
         receiver_id |-> receiver.id,
         receiver_name |-> receiver.name,
         receiver_country |-> Str(ToUpperCase(receiver.country.s)),
         status |-> data.status,
         payment_method |-> data.payment_method,
         processing_fee |-> Null,
         net_amount |-> Null,
         exchange_rate |-> Null,
         metadata |-> data.metadata,
         processed_at |-> now]

\* transactionRepo.create({...}) with the id the INSERT gives it
CreateTransaction(payload, derivedFields, now, id) ==
    LET data == Get(payload.data)
        sender == Get(data.sender)
        receiver == Get(data.receiver)
    IN  [id |-> id,
         event_id |-> payload.event_id,
         transaction_id |-> data.transaction_id,
         amount |-> data.amount,
         currency |-> Str(ToUpperCase(data.currency.s)),
         sender_id |-> sender.id,
         sender_name |-> sender.name,
         sender_country |-> Str(ToUpperCase(sender.country.s)),
         receiver_id |-> receiver.id,
         receiver_name |-> receiver.name,
         receiver_country |-> Str(ToUpperCase(receiver.country.s)),
         status |-> data.status,
         payment_method |-> data.payment_method,
         processing_fee |-> derivedFields.processing_fee,
         net_amount |-> derivedFields.net_amount,
         exchange_rate |-> Null,
         metadata |-> data.metadata,
         processed_at |-> now]

CreateAuditLogMutNoMessage(r, k, payload, status, err) ==
    [id |-> <<r, k>>,
     event_id |-> payload.event_id,
     event_type |-> payload.event_type,
     payload |-> payload,
     status |-> status,
     error_message |-> None]

\* auditLogRepo.create({...}); the row is named by the request and the call
\* that wrote it (its uuid).
CreateAuditLog(r, k, payload, status, err) ==
    [id |-> <<r, k>>,
     event_id |-> payload.event_id,
     event_type |-> payload.event_type,
     payload |-> payload,
     status |-> status,
     error_message |-> IF IsSome(err) THEN Some(Get(err).message) ELSE None]

\* Reading payload.event_id of null throws inside logWebhookEvent's try;
\* event_id and event_type are NOT NULL columns of audit_logs.
AuditInsertable(payload) ==
    /\ payload.kind # "null"
    /\ payload.event_id.t \notin {"undefined", "null"}
    /\ payload.event_type.t \notin {"undefined", "null"}

LogWebhookEventMutUpdate(table, r, k, payload, status, err, dbOk) ==
    IF dbOk /\ AuditInsertable(payload)
    THEN {a \in table : a.id[1] # r} \cup {CreateAuditLog(r, k, payload, status, err)}
    ELSE table

\* audit_logs after logWebhookEvent(payload, status, err), dbOk telling whether
\* the storage accepts writes at that moment.
LogWebhookEvent(table, r, k, payload, status, err, dbOk) ==
    IF dbOk /\ AuditInsertable(payload)
    THEN table \cup {CreateAuditLog(r, k, payload, status, err)}
    ELSE table

LogWebhookEventThrowsMutPropagate(written) == ~written

\* logWebhookEvent catches every error of the write and only logs it.
LogWebhookEventThrows(written) == FALSE

(***************************************************************************)
(* HTTP responses of the route and of the middlewares before it.           *)
(***************************************************************************)
InvalidJsonResponse == [status |-> 400, error |-> "Invalid JSON payload"]

UnauthorizedResponse(message) ==
    [status |-> 401, error |-> "Unauthorized", message |-> message]

SuccessResponse(transaction) ==
    [status |-> 200, success |-> TRUE, message |-> "Webhook processed successfully",
     data |-> [id |-> transaction.id,
               transaction_id |-> transaction.transaction_id,
               status |-> transaction.status,
               amount |-> transaction.amount,
               currency |-> transaction.currency,
               processing_fee |-> transaction.processing_fee,
               net_amount |-> transaction.net_amount]]

ConflictData(existing) ==
    [id |-> existing.id,
     transaction_id |-> existing.transaction_id,
     status |-> existing.status,
     processed_at |-> existing.processed_at]

ConflictResponse(existing) ==
    [status |-> 409, error |-> "Conflict", message |-> "Transaction already processed",
     data |-> ConflictData(existing)]

ValidationResponse(err) ==
    [status |-> 400, error |-> "Validation Error", message |-> err.message,
     field |-> err.field]

ServerErrorResponse ==
    [status |-> 500, error |-> "Internal Server Error",
     message |-> "Failed to process webhook"]

ErrorResponseMutLeak(err) ==
    IF err.name = "DuplicateTransactionError"
    THEN ConflictResponse(Get(err.existingTransaction))
    ELSE IF err.name = "ValidationError" THEN ValidationResponse(err)
    ELSE [status |-> 500, error |-> "Internal Server Error", message |-> err.message]

\* The catch block of the route.
ErrorResponse(err) ==
    IF err.name = "DuplicateTransactionError"
    THEN ConflictResponse(Get(err.existingTransaction))
    ELSE IF err.name = "ValidationError" THEN ValidationResponse(err)
    ELSE ServerErrorResponse

(***************************************************************************)
(* The requests tried.  A raw body is an opaque text; JSONParse gives what *)
(* JSON.parse returns for it, or nothing when it throws.                   *)
(***************************************************************************)
E1 == <<"e", "1">>
E2 == <<"e", "2">>
T1 == <<"t", "1">>
T2 == <<"t", "2">>

ValidPayload(eventId, transactionId, amount) ==
    [kind |-> "object",
     event_id |-> Str(eventId),
     event_type |-> Str(<<"p", "a", "y">>),
     data |-> Some(
        [transaction_id |-> Str(transactionId),
         amount |-> Num(amount),
         currency |-> Str(<<"u", "s", "d">>),
         sender |-> Some(Party(Str(<<"s">>), Str(<<"S">>),
                               Str(<<"a", "@", "b", ".", "c">>), Str(<<"i", "n">>))),
         receiver |-> Some(Party(Str(<<"r">>), Str(<<"R">>),
                                 Str(<<"d", "@", "e", ".", "f">>), Str(<<"U", "S">>))),
         status |-> Str(<<"p", "e", "n", "d", "i", "n", "g">>),
         payment_method |-> Str(<<"c", "a", "r", "d">>),
         metadata |-> Undef])]

\* The payload with data.currency replaced.
WithCurrency(payload, currency) ==
    [payload EXCEPT !.data = Some([Get(@) EXCEPT !.currency = currency])]

RawBodies ==
    {<<"A">>, <<"B">>, <<"C">>, <<"D">>, <<"N">>, <<"X">>, <<"M">>, <<"T">>,
     <<"O">>, <<"Z">>, <<"G">>}

\* JSON.parse(req.body.toString())
JSONParse(raw) ==
    CASE raw = <<"A">> -> Some(ValidPayload(E1, T1, 100500))  \* amount 100.50
      [] raw = <<"B">> -> Some(ValidPayload(E1, T1, 20000))   \* same ids, amount 20.00
      [] raw = <<"C">> -> Some(ValidPayload(E1, T2, 100500))  \* same event_id
      [] raw = <<"D">> -> Some(ValidPayload(E2, T1, 100500))  \* same transaction_id
      [] raw = <<"N">> -> Some(ValidPayload(E1, T1, 0 - 5000)) \* amount -5
      [] raw = <<"X">> -> Some(WithCurrency(ValidPayload(E1, T1, 100500),
                                            Str(<<"X", "X", "X">>)))  \* currency XXX
      [] raw = <<"M">> -> Some([ValidPayload(E1, T1, 100500)
                                   EXCEPT !.event_id = Undef])  \* no event_id
      [] raw = <<"T">> -> Some([ValidPayload(E1, T1, 100500)
                                   EXCEPT !.data = None])       \* no data
      [] raw = <<"O">> -> Some(PayloadOther)                  \* the text 5
      [] raw = <<"Z">> -> Some(PayloadNull)                   \* the text null
      [] OTHER -> None                                        \* not JSON

\* Seconds since the epoch that Date.now() may show.
Clock == {1000, 1000 + DefaultTolerance + 1}

Request(signature, timestamp, rawBody) ==
    [signature |-> signature, timestamp |-> timestamp, rawBody |-> rawBody]

Requests ==
    {Request(Some(HmacHex(Secret, b)), None, b) : b \in RawBodies}
    \cup {Request(None, None, <<"A">>),
          Request(None, None, <<"G">>),
          Request(Some(Tampered(HmacHex(Secret, <<"A">>))), None, <<"A">>),
          Request(Some(HmacHex(Secret, Dec(1000) \o <<".">> \o <<"A">>)),
                  Some(Dec(1000)), <<"A">>),
          Request(Some(HmacHex(Secret, <<"A">>)), Some(Dec(1000)), <<"A">>)}

IsValidSignatureMutBodyOnly(w, now) == Verify(w.rawBody, Get(w.signature))

\* isValid of the verifySignature middleware
IsValidSignature(w, now) ==
    IF IsSome(w.timestamp) /\ Get(w.timestamp) # <<>>
    THEN VerifyWithTimestamp(w.rawBody, Get(w.signature), Get(w.timestamp),
                             DefaultTolerance, now)
    ELSE Verify(w.rawBody, Get(w.signature))

VerifySignatureMutSkip(w, now) == None

\* The verifySignature middleware: the response it sends, or none when it calls next().
VerifySignature(w, now) ==
    IF ~IsSome(w.signature) THEN Some(UnauthorizedResponse("Missing webhook signature"))
    ELSE IF ~IsValidSignature(w, now)
    THEN Some(UnauthorizedResponse("Invalid webhook signature"))
    ELSE None

\* Does the request carry a signature header that verifies at time now.
Authentic(w, now) == IsSome(w.signature) /\ IsValidSignature(w, now)

(***************************************************************************)
(* The handlers.  Requests 1..NumReq arrive in this order and then run     *)
(* interleaved; a step is one storage call with the synchronous code       *)
(* before it.  dbOk tells whether the storage call of the step succeeds.   *)
(***************************************************************************)
Slots == 1..NumReq

Payload(r) == Get(body[r])

\* A call of logWebhookEvent: its status argument, whether the row was stored,
\* and whether the storage accepted writes at that moment.
AuditCall(status, written, dbOk) ==
    [status |-> status, written |-> written, dbOk |-> dbOk]

FailedMutSkipsAudit(r, err, dbOk) ==
    /\ UNCHANGED <<auditLogs, auditCalls>>
    /\ error' = [error EXCEPT ![r] = Some(err)]
    /\ res' = [res EXCEPT ![r] = Some(ErrorResponse(err))]
    /\ pc' = [pc EXCEPT ![r] = "done"]

\* The terminal of the catch block: logWebhookEvent(payload, "failed", err), then
\* the error reaches the route, which answers.
Failed(r, err, dbOk) ==
    LET logs == LogWebhookEvent(auditLogs, r, Len(auditCalls[r]) + 1, Payload(r),
                                "failed", Some(err), dbOk)
        written == logs # auditLogs
    IN  /\ auditLogs' = logs
        /\ auditCalls' = [auditCalls EXCEPT ![r] = Append(@, AuditCall("failed", written, dbOk))]
        /\ error' = [error EXCEPT ![r] = Some(err)]
        /\ res' = [res EXCEPT ![r] =
                      Some(ErrorResponse(IF LogWebhookEventThrows(written)
                                         THEN AuditError ELSE err))]
        /\ pc' = [pc EXCEPT ![r] = "done"]

\* The JSON middleware, verifySignature, and the start of processWebhook:
\* logWebhookEvent(payload, "received").
ArriveOf(r, requests) ==
    /\ pc[r] = "idle"
    /\ IF r = 1 THEN TRUE ELSE pc[r - 1] # "idle"
    /\ \E w \in requests, now \in Clock, dbOk \in BOOLEAN :
         LET parsed == JSONParse(w.rawBody)
             denied == VerifySignature(w, now)
         IN  /\ sigOk' = [sigOk EXCEPT ![r] = Authentic(w, now)]
             /\ answeredBefore' = [answeredBefore EXCEPT ![r] = {q \in Slots : pc[q] = "done"}]
             /\ body' = [body EXCEPT ![r] = parsed]
             /\ IF ~IsSome(parsed)
                THEN /\ res' = [res EXCEPT ![r] = Some(InvalidJsonResponse)]
                     /\ pc' = [pc EXCEPT ![r] = "done"]
                     /\ UNCHANGED <<auditLogs, auditCalls>>
                ELSE IF IsSome(denied)
                THEN /\ res' = [res EXCEPT ![r] = denied]
                     /\ pc' = [pc EXCEPT ![r] = "done"]
                     /\ UNCHANGED <<auditLogs, auditCalls>>
                ELSE LET logs == LogWebhookEvent(auditLogs, r, 1, Get(parsed),
                                                 "received", None, dbOk)
                         written == logs # auditLogs
                     IN  /\ auditLogs' = logs
                         /\ auditCalls' = [auditCalls EXCEPT ![r] =
                                              <<AuditCall("received", written, dbOk)>>]
                         /\ IF LogWebhookEventThrows(written)
                            THEN /\ res' = [res EXCEPT ![r] = Some(ErrorResponse(AuditError))]
                                 /\ pc' = [pc EXCEPT ![r] = "done"]
                            ELSE /\ res' = res
                                 /\ pc' = [pc EXCEPT ![r] = "validate"]
    /\ UNCHANGED <<error, savedTransaction, transactions, storeCalls, callVars>>

\* A request of Requests arrives.
Arrive(r) == ArriveOf(r, Requests)

ValidateFailsMutPersists(r) ==
    /\ pc[r] = "validate"
    /\ IsSome(Validate(Payload(r)))
    /\ \E dbOk \in BOOLEAN : Failed(r, Get(Validate(Payload(r))), dbOk)
    /\ transactions' =
          IF Payload(r).event_id.t = "string" /\ IsSome(Payload(r).data)
          THEN transactions \cup
                  {CreateTransaction(Payload(r), CalculateDerivedFields(Num(0)), 0,
                                     NewId(transactions))}
          ELSE transactions
    /\ UNCHANGED <<body, sigOk, savedTransaction, storeCalls, answeredBefore, callVars>>

\* TransactionValidator.validate(payload) throws: the catch block runs.
ValidateFails(r) ==
    /\ pc[r] = "validate"
    /\ IsSome(Validate(Payload(r)))
    /\ \E dbOk \in BOOLEAN : Failed(r, Get(Validate(Payload(r))), dbOk)
    /\ UNCHANGED <<body, sigOk, savedTransaction, transactions, storeCalls,
                   answeredBefore, callVars>>

\* validate passes; checkDuplicate looks the event_id up.
CheckEventId(r) ==
    /\ pc[r] = "validate"
    /\ ~IsSome(Validate(Payload(r)))
    /\ \E dbOk \in BOOLEAN :
         LET existingByEvent == FindOneByEventId(transactions, Payload(r).event_id)
         IN  IF ~dbOk
             THEN /\ error' = [error EXCEPT ![r] = Some(StorageError)]
                  /\ storeCalls' = [storeCalls EXCEPT ![r] = Append(@, "fail")]
                  /\ pc' = [pc EXCEPT ![r] = "failed"]
             ELSE IF IsSome(existingByEvent)
             THEN /\ error' = [error EXCEPT ![r] =
                                  Some(DuplicateTransactionError(Get(existingByEvent)))]
                  /\ storeCalls' = [storeCalls EXCEPT ![r] = Append(@, "hit")]
                  /\ pc' = [pc EXCEPT ![r] = "failed"]
             ELSE /\ error' = error
                  /\ storeCalls' = [storeCalls EXCEPT ![r] = Append(@, "miss")]
                  /\ pc' = [pc EXCEPT ![r] = "checkTxn"]
    /\ UNCHANGED <<body, sigOk, savedTransaction, res, transactions, auditLogs,
                   auditCalls, answeredBefore, callVars>>

CheckTransactionIdMutIgnoresHit(r) ==
    /\ pc[r] = "checkTxn"
    /\ \E dbOk \in BOOLEAN :
         LET existingByTxn ==
                 FindOneByTransactionId(transactions, DataField(Payload(r), "transaction_id"))
         IN  IF ~dbOk
             THEN /\ error' = [error EXCEPT ![r] = Some(StorageError)]
                  /\ storeCalls' = [storeCalls EXCEPT ![r] = Append(@, "fail")]
                  /\ pc' = [pc EXCEPT ![r] = "failed"]
             ELSE /\ error' = error
                  /\ storeCalls' = [storeCalls EXCEPT ![r] =
                                       Append(@, IF IsSome(existingByTxn)
                                                 THEN "hit" ELSE "miss")]
                  /\ pc' = [pc EXCEPT ![r] = "save"]
    /\ UNCHANGED <<body, sigOk, savedTransaction, res, transactions, auditLogs,
                   auditCalls, answeredBefore, callVars>>

\* checkDuplicate looks the transaction_id up.
CheckTransactionId(r) ==
    /\ pc[r] = "checkTxn"
    /\ \E dbOk \in BOOLEAN :
         LET existingByTxn ==
                 FindOneByTransactionId(transactions, DataField(Payload(r), "transaction_id"))
         IN  IF ~dbOk
             THEN /\ error' = [error EXCEPT ![r] = Some(StorageError)]
                  /\ storeCalls' = [storeCalls EXCEPT ![r] = Append(@, "fail")]
                  /\ pc' = [pc EXCEPT ![r] = "failed"]
             ELSE IF IsSome(existingByTxn)
             THEN /\ error' = [error EXCEPT ![r] =
                                  Some(DuplicateTransactionError(Get(existingByTxn)))]
                  /\ storeCalls' = [storeCalls EXCEPT ![r] = Append(@, "hit")]
                  /\ pc' = [pc EXCEPT ![r] = "failed"]
             ELSE /\ error' = error
                  /\ storeCalls' = [storeCalls EXCEPT ![r] = Append(@, "miss")]
                  /\ pc' = [pc EXCEPT ![r] = "save"]
    /\ UNCHANGED <<body, sigOk, savedTransaction, res, transactions, auditLogs,
                   auditCalls, answeredBefore, callVars>>

\* calculateDerivedFields, transactionRepo.create and transactionRepo.save
Save(r) ==
    /\ pc[r] = "save"
    /\ \E dbOk \in BOOLEAN, now \in Clock :
         LET derivedFields == CalculateDerivedFields(DataField(Payload(r), "amount"))
             transaction == CreateTransaction(Payload(r), derivedFields, now,
                                              NewId(transactions))
         IN  IF ~dbOk \/ ~FitsDecimal(transaction.amount)
             THEN /\ error' = [error EXCEPT ![r] = Some(StorageError)]
                  /\ storeCalls' = [storeCalls EXCEPT ![r] = Append(@, "fail")]
                  /\ pc' = [pc EXCEPT ![r] = "failed"]
                  /\ transactions' = DbInsertFailed(transactions, transaction)
                  /\ UNCHANGED savedTransaction
             ELSE IF DbInsert(transactions, transaction).outcome = "unique"
             THEN /\ error' = [error EXCEPT ![r] = Some(UniqueViolation)]
                  /\ storeCalls' = [storeCalls EXCEPT ![r] = Append(@, "unique")]
                  /\ pc' = [pc EXCEPT ![r] = "failed"]
                  /\ UNCHANGED <<transactions, savedTransaction>>
             ELSE /\ transactions' = DbInsert(transactions, transaction).table
                  /\ savedTransaction' = [savedTransaction EXCEPT ![r] = Some(transaction)]
                  /\ storeCalls' = [storeCalls EXCEPT ![r] = Append(@, "saved")]
                  /\ pc' = [pc EXCEPT ![r] = "processed"]
                  /\ error' = error
    /\ UNCHANGED <<body, sigOk, res, auditLogs, auditCalls, answeredBefore, callVars>>

\* logWebhookEvent(payload, "processed"); processWebhook returns and the route
\* answers 200.
LogProcessed(r) ==
    /\ pc[r] = "processed"
    /\ \E dbOk \in BOOLEAN :
         LET logs == LogWebhookEvent(auditLogs, r, Len(auditCalls[r]) + 1, Payload(r),
                                     "processed", None, dbOk)
             written == logs # auditLogs
         IN  /\ auditLogs' = logs
             /\ auditCalls' = [auditCalls EXCEPT ![r] =
                                  Append(@, AuditCall("processed", written, dbOk))]
             /\ IF LogWebhookEventThrows(written)
                THEN /\ error' = [error EXCEPT ![r] = Some(AuditError)]
                     /\ pc' = [pc EXCEPT ![r] = "failed"]
                     /\ res' = res
                ELSE /\ res' = [res EXCEPT ![r] =
                                   Some(SuccessResponse(Get(savedTransaction[r])))]
                     /\ pc' = [pc EXCEPT ![r] = "done"]
                     /\ error' = error
    /\ UNCHANGED <<body, sigOk, savedTransaction, transactions, storeCalls,
                   answeredBefore, callVars>>

LogFailedMutRetry(r) ==
    /\ pc[r] = "failed"
    /\ pc' = [pc EXCEPT ![r] = "validate"]
    /\ error' = [error EXCEPT ![r] = None]
    /\ UNCHANGED <<body, sigOk, savedTransaction, res, transactions, auditLogs,
                   auditCalls, storeCalls, answeredBefore, callVars>>

\* The catch block after a storage call threw.
LogFailed(r) ==
    /\ pc[r] = "failed"
    /\ \E dbOk \in BOOLEAN : Failed(r, Get(error[r]), dbOk)
    /\ UNCHANGED <<body, sigOk, savedTransaction, transactions, storeCalls,
                   answeredBefore, callVars>>

NoTsIn ==
    [payload |-> <<>>, receivedSignature |-> HmacHex(Secret, <<>>), timestamp |-> <<>>,
     toleranceSeconds |-> 0, currentTime |-> 0]

otherCalls == <<dupCall, authCall, persistCall>>

NoDupCall == [table |-> {}, eventId |-> Undef, transactionId |-> Undef, result |-> None]

NoAuthCall == [request |-> Request(None, None, <<>>), now |-> 0, result |-> None]

NoPersistCall == [payload |-> PayloadNull, now |-> 0, result |-> None]

\* No call of checkDuplicate, verifySignature or the persistence path is under way.
OtherCallsIdle ==
    /\ dupCall = NoDupCall
    /\ authCall = NoAuthCall
    /\ persistCall = NoPersistCall

NoVerifyCall ==
    [payload |-> <<>>, receivedSignature |-> HmacHex(Secret, <<>>), how |-> "none",
     result |-> None]

NoValidateCall ==
    [payload |-> PayloadNull,
     input |-> [shape |-> "none", missing |-> {}, gap |-> Undef, broken |-> {},
                badAmount |-> Num(0)],
     result |-> None]

NoCalcCall == [amount |-> Num(0), result |-> None]

Init ==
    /\ pc = [r \in Slots |-> "idle"]
    /\ body = [r \in Slots |-> None]
    /\ sigOk = [r \in Slots |-> FALSE]
    /\ error = [r \in Slots |-> None]
    /\ savedTransaction = [r \in Slots |-> None]
    /\ res = [r \in Slots |-> None]
    /\ transactions = {}
    /\ auditLogs = {}
    /\ auditCalls = [r \in Slots |-> <<>>]
    /\ storeCalls = [r \in Slots |-> <<>>]
    /\ answeredBefore = [r \in Slots |-> {}]
    /\ tsIn = NoTsIn
    /\ tsOut = None
    /\ verifyCall = NoVerifyCall
    /\ validateCall = NoValidateCall
    /\ calcCall = NoCalcCall
    /\ OtherCallsIdle

Next ==
    \E r \in Slots :
        \/ Arrive(r)
        \/ ValidateFails(r)
        \/ CheckEventId(r)
        \/ CheckTransactionId(r)
        \/ Save(r)
        \/ LogProcessed(r)
        \/ LogFailed(r)

Spec == Init /\ [][Next]_vars

\* A step of a run of processWebhook that has started.
Advance(r) ==
    \/ ValidateFails(r)
    \/ CheckEventId(r)
    \/ CheckTransactionId(r)
    \/ Save(r)
    \/ LogProcessed(r)
    \/ LogFailed(r)

\* The requests of the runs whose termination is checked: correctly signed
\* ones that are saved, refused as duplicates, fail validation or throw, and
\* one without a signature.
RunRequests ==
    {Request(Some(HmacHex(Secret, b)), None, b) :
        b \in {<<"A">>, <<"D">>, <<"N">>, <<"Z">>}}
    \cup {Request(None, None, <<"A">>)}

RunNext == \E r \in Slots : ArriveOf(r, RunRequests) \/ Advance(r)

\* Every storage call returns or fails, and the code between two awaits runs
\* to the next one: a started run is not left waiting forever.
FairSpec == Init /\ [][RunNext]_vars /\ \A r \in Slots : WF_vars(Advance(r))

(***************************************************************************)
(* verifyWithTimestamp on its own: the arguments and the clock are drawn   *)
(* from bounded sets, the call is applied once.                            *)
(***************************************************************************)
TsTimes == (0..MaxT) \cup {DefaultTolerance + k : k \in 0..MaxT}

TsTolerances == (0..MaxT) \cup {DefaultTolerance}

TsIntegers == TsTimes \cup {0 - 1}

TsBodies == {<<"A">>}

\* Timestamp headers: the decimal text of an integer, and texts that are not.
TsHeaders ==
    {Dec(t) : t \in TsIntegers} \cup {<<>>, <<"a">>, <<"1", "a">>, <<" ", "2">>}

TsSignatures(timestamp, payload) ==
    {HmacHex(Secret, timestamp \o <<".">> \o payload),
     HmacHex(Secret, payload),
     Tampered(HmacHex(Secret, timestamp \o <<".">> \o payload)),
     Truncated(HmacHex(Secret, timestamp \o <<".">> \o payload))}

TsInit ==
    /\ pc = [r \in Slots |-> "idle"]
    /\ body = [r \in Slots |-> None]
    /\ sigOk = [r \in Slots |-> FALSE]
    /\ error = [r \in Slots |-> None]
    /\ savedTransaction = [r \in Slots |-> None]
    /\ res = [r \in Slots |-> None]
    /\ transactions = {}
    /\ auditLogs = {}
    /\ auditCalls = [r \in Slots |-> <<>>]
    /\ storeCalls = [r \in Slots |-> <<>>]
    /\ answeredBefore = [r \in Slots |-> {}]
    /\ \E payload \in TsBodies, timestamp \in TsHeaders, tol \in TsTolerances,
          now \in TsTimes :
         \E sig \in TsSignatures(timestamp, payload) :
            tsIn = [payload |-> payload, receivedSignature |-> sig,
                    timestamp |-> timestamp, toleranceSeconds |-> tol,
                    currentTime |-> now]
    /\ tsOut = None
    /\ verifyCall = NoVerifyCall
    /\ validateCall = NoValidateCall
    /\ calcCall = NoCalcCall
    /\ OtherCallsIdle

CallVerifyWithTimestamp ==
    /\ tsOut = None
    /\ tsOut' = Some(VerifyWithTimestamp(tsIn.payload, tsIn.receivedSignature,
                                         tsIn.timestamp, tsIn.toleranceSeconds,
                                         tsIn.currentTime))
    /\ UNCHANGED <<pipelineVars, tsIn, verifyCall, validateCall, calcCall, otherCalls>>

TsNext == CallVerifyWithTimestamp

SpecTs == TsInit /\ [][TsNext]_vars

(***************************************************************************)
(* verify on its own: a body, and a header value made from it in one of    *)
(* the ways named by how.                                                  *)
(***************************************************************************)
PipelineIdle ==
    /\ pc = [r \in Slots |-> "idle"]
    /\ body = [r \in Slots |-> None]
    /\ sigOk = [r \in Slots |-> FALSE]
    /\ error = [r \in Slots |-> None]
    /\ savedTransaction = [r \in Slots |-> None]
    /\ res = [r \in Slots |-> None]
    /\ transactions = {}
    /\ auditLogs = {}
    /\ auditCalls = [r \in Slots |-> <<>>]
    /\ storeCalls = [r \in Slots |-> <<>>]
    /\ answeredBefore = [r \in Slots |-> {}]

\* Bodies: the raw bodies of the requests, the empty body, and bodies that
\* differ from the body "A" by one byte changed or one byte added.
VerifyBodies == RawBodies \cup {<<>>, <<"a">>, <<"A", " ">>}

OtherSecret == "OTHER_SECRET"

\* The digest with its character at position i changed.
FlipAt(sig, i) == [sig EXCEPT !.kind = "flip " \o Join(Dec(i))]

\* The digest with one character appended.
Extended(sig) == [sig EXCEPT !.len = HexLen + 1, !.kind = "extended"]

\* The digest in upper-case hexadecimal.
UpperHex(sig) == [sig EXCEPT !.kind = "upper"]

\* A header that is no string: Buffer.from throws inside the try of verify.
NoString == [len |-> 0, kind |-> "undefined", key |-> "", msg |-> <<>>]

FlipPositions == {1, HexLen \div 2, HexLen}

\* The header values tried against payload, each with the way it was made.
VerifyHeaders(payload) ==
    {[how |-> "correct", sig |-> HmacHex(Secret, payload)],
     [how |-> "other key", sig |-> HmacHex(OtherSecret, payload)],
     [how |-> "truncated", sig |-> Truncated(HmacHex(Secret, payload))],
     [how |-> "extended", sig |-> Extended(HmacHex(Secret, payload))],
     [how |-> "upper", sig |-> UpperHex(HmacHex(Secret, payload))],
     [how |-> "no string", sig |-> NoString]}
    \cup {[how |-> "flipped", sig |-> FlipAt(HmacHex(Secret, payload), i)] :
             i \in FlipPositions}
    \cup {[how |-> "other body", sig |-> HmacHex(Secret, b)] :
             b \in VerifyBodies \ {payload}}

VerifyInit ==
    /\ PipelineIdle
    /\ tsIn = NoTsIn
    /\ tsOut = None
    /\ \E payload \in VerifyBodies :
         \E h \in VerifyHeaders(payload) :
            verifyCall = [payload |-> payload, receivedSignature |-> h.sig,
                          how |-> h.how, result |-> None]
    /\ validateCall = NoValidateCall
    /\ calcCall = NoCalcCall
    /\ OtherCallsIdle

CallVerify ==
    /\ verifyCall.result = None
    /\ verifyCall' = [verifyCall EXCEPT
                         !.result = Some(Verify(verifyCall.payload,
                                                verifyCall.receivedSignature))]
    /\ UNCHANGED <<pipelineVars, tsIn, tsOut, validateCall, calcCall, otherCalls>>

VerifyNext == CallVerify

SpecVerify == VerifyInit /\ [][VerifyNext]_vars

(***************************************************************************)
(* TransactionValidator.validate on its own.  A payload is made from the   *)
(* valid one by leaving out required fields (missing: their positions in   *)
(* requiredFields, each replaced by gap), by dropping data, sender or      *)
(* receiver (shape), and by breaking the rules 2..8 named in broken:       *)
(* 2 amount, 3 currency, 4 status, 5 sender country, 6 receiver country,   *)
(* 7 sender email, 8 receiver email.                                       *)
(***************************************************************************)
RequiredNames ==
    <<"event_id", "event_type", "data.transaction_id", "data.amount", "data.currency",
      "data.sender.id", "data.sender.name", "data.sender.email", "data.sender.country",
      "data.receiver.id", "data.receiver.name", "data.receiver.email",
      "data.receiver.country", "data.status", "data.payment_method">>

Gaps == {Undef, Null, Str(<<>>)}

\* Amounts that validateAmount refuses: -5, 0, 10.005 and the string "5".
BadAmounts == {Num(0 - 5000), Num(0), Num(10005), Str(<<"5">>)}

ValidateInputs ==
    {[shape |-> "full", missing |-> m, gap |-> g, broken |-> b, badAmount |-> a] :
        m \in {{}} \cup {{i} : i \in 1..15} \cup {{i, 15} : i \in 1..14},
        g \in Gaps, b \in SUBSET (2..8), a \in BadAmounts}
    \cup
    {[shape |-> sh, missing |-> {}, gap |-> Undef, broken |-> b, badAmount |-> a] :
        sh \in {"no data", "no sender", "no receiver"},
        b \in SUBSET (2..8), a \in BadAmounts}

\* The value of the required field at position k.
FieldValue(input, k, v) == IF k \in input.missing THEN input.gap ELSE v

BuildPayload(input) ==
    LET F(k, v) == FieldValue(input, k, v)
        B(rule, good, bad) == IF rule \in input.broken THEN bad ELSE good
    IN  [kind |-> "object",
         event_id |-> F(1, Str(E1)),
         event_type |-> F(2, Str(<<"p", "a", "y">>)),
         data |->
            IF input.shape = "no data" THEN None
            ELSE Some(
              [transaction_id |-> F(3, Str(T1)),
               amount |-> F(4, B(2, Num(100500), input.badAmount)),
               currency |-> F(5, B(3, Str(<<"u", "s", "d">>), Str(<<"X", "X", "X">>))),
               sender |->
                  IF input.shape = "no sender" THEN None
                  ELSE Some(Party(F(6, Str(<<"s">>)), F(7, Str(<<"S">>)),
                                  F(8, B(7, Str(<<"a", "@", "b", ".", "c">>),
                                            Str(<<"a", "b">>))),
                                  F(9, B(5, Str(<<"i", "n">>), Str(<<"I", "N", "D">>))))),
               receiver |->
                  IF input.shape = "no receiver" THEN None
                  ELSE Some(Party(F(10, Str(<<"r">>)), F(11, Str(<<"R">>)),
                                  F(12, B(8, Str(<<"d", "@", "e", ".", "f">>),
                                             Str(<<"d", "@", "e">>))),
                                  F(13, B(6, Str(<<"U", "S">>), Str(<<"U", "1">>))))),
               status |-> F(14, B(4, Str(<<"p", "e", "n", "d", "i", "n", "g">>),
                                     Str(<<"d", "o", "n", "e">>))),
               payment_method |-> F(15, Str(<<"c", "a", "r", "d">>)),
               metadata |-> Undef])]

ValidateInit ==
    /\ PipelineIdle
    /\ tsIn = NoTsIn
    /\ tsOut = None
    /\ verifyCall = NoVerifyCall
    /\ \E input \in ValidateInputs :
         validateCall = [payload |-> BuildPayload(input), input |-> input,
                         result |-> None]
    /\ calcCall = NoCalcCall
    /\ OtherCallsIdle

\* validate(payload): result holds the error thrown, or none when it returns.
CallValidate ==
    /\ validateCall.result = None
    /\ validateCall' = [validateCall EXCEPT !.result = Some(Validate(validateCall.payload))]
    /\ UNCHANGED <<pipelineVars, tsIn, tsOut, verifyCall, calcCall, otherCalls>>

ValidateNext == CallValidate

SpecValidate == ValidateInit /\ [][ValidateNext]_vars

(***************************************************************************)
(* calculateDerivedFields on its own: every whole-cent amount from 0.01 to *)
(* MaxCents cents, and 100.50.                                             *)
(***************************************************************************)
CalcAmounts == {Num(c * 10) : c \in (1..MaxCents) \cup {10050}}

CalcInit ==
    /\ PipelineIdle
    /\ tsIn = NoTsIn
    /\ tsOut = None
    /\ verifyCall = NoVerifyCall
    /\ validateCall = NoValidateCall
    /\ \E amount \in CalcAmounts : calcCall = [amount |-> amount, result |-> None]
    /\ OtherCallsIdle

CallCalculateDerivedFields ==
    /\ calcCall.result = None
    /\ calcCall' = [calcCall EXCEPT !.result = Some(CalculateDerivedFields(calcCall.amount))]
    /\ UNCHANGED <<pipelineVars, tsIn, tsOut, verifyCall, validateCall, otherCalls>>

CalcNext == CallCalculateDerivedFields

SpecCalc == CalcInit /\ [][CalcNext]_vars

(***************************************************************************)
(* checkDuplicate on its own: a table of up to two stored Transactions     *)
(* and the two ids looked up, each one stored or not.                      *)
(***************************************************************************)
E3 == <<"e", "3">>
T3 == <<"t", "3">>

\* The stored record of the payload with these ids.
DupRow(eventId, transactionId, id) ==
    CreateTransaction(ValidPayload(eventId, transactionId, 100500),
                      CalculateDerivedFields(Num(100500)), 1000, id)

\* Tables that respect the two UNIQUE columns.
DupTables ==
    {{}}
    \cup {{DupRow(e, t, 1)} : e \in {E1, E2}, t \in {T1, T2}}
    \cup {{DupRow(E1, T1, 1), DupRow(E2, T2, 2)}, {DupRow(E1, T2, 1), DupRow(E2, T1, 2)}}

DupInit ==
    /\ PipelineIdle
    /\ tsIn = NoTsIn
    /\ tsOut = None
    /\ verifyCall = NoVerifyCall
    /\ validateCall = NoValidateCall
    /\ calcCall = NoCalcCall
    /\ \E table \in DupTables, e \in {E1, E2, E3}, t \in {T1, T2, T3} :
         dupCall = [table |-> table, eventId |-> Str(e), transactionId |-> Str(t),
                    result |-> None]
    /\ authCall = NoAuthCall
    /\ persistCall = NoPersistCall

CallCheckDuplicate ==
    /\ dupCall.result = None
    /\ dupCall' = [dupCall EXCEPT !.result =
                      Some(CheckDuplicate(dupCall.table, dupCall.eventId,
                                          dupCall.transactionId))]
    /\ UNCHANGED <<pipelineVars, tsIn, tsOut, verifyCall, validateCall, calcCall,
                   authCall, persistCall>>

DupNext == CallCheckDuplicate

SpecDup == DupInit /\ [][DupNext]_vars

(***************************************************************************)
(* The verifySignature middleware on its own: requests with and without    *)
(* the timestamp header, signed over the body alone or over                *)
(* "<timestamp>.<body>", verified at several times.                        *)
(***************************************************************************)
\* Date.now() at the time of signing, just outside the window, and much later.
AuthClock == Clock \cup {1000 + 1000 * DefaultTolerance}

\* X-Webhook-Timestamp: absent, empty, the time of signing, or no number.
AuthTimestamps == {None, Some(<<>>), Some(Dec(1000)), Some(<<"a">>)}

AuthBodies == {<<"A">>, <<"B">>}

\* X-Webhook-Signature values tried for a body and a timestamp header.
AuthSignatures(rawBody, timestamp) ==
    {None,
     Some(HmacHex(Secret, rawBody)),
     Some(Tampered(HmacHex(Secret, rawBody))),
     Some(HmacHex(Secret, <<"C">>)),
     Some(HmacHex(Secret, (IF IsSome(timestamp) THEN Get(timestamp) ELSE <<>>)
                              \o <<".">> \o rawBody))}

AuthInit ==
    /\ PipelineIdle
    /\ tsIn = NoTsIn
    /\ tsOut = None
    /\ verifyCall = NoVerifyCall
    /\ validateCall = NoValidateCall
    /\ calcCall = NoCalcCall
    /\ dupCall = NoDupCall
    /\ \E rawBody \in AuthBodies, timestamp \in AuthTimestamps, now \in AuthClock :
         \E signature \in AuthSignatures(rawBody, timestamp) :
            authCall = [request |-> Request(signature, timestamp, rawBody),
                        now |-> now, result |-> None]
    /\ persistCall = NoPersistCall

\* verifySignature(req, res, next): result holds the 401 response it sends, or
\* none when it calls next().
CallVerifySignature ==
    /\ authCall.result = None
    /\ authCall' = [authCall EXCEPT
                       !.result = Some(VerifySignature(authCall.request, authCall.now))]
    /\ UNCHANGED <<pipelineVars, tsIn, tsOut, verifyCall, validateCall, calcCall,
                   dupCall, persistCall>>

AuthNext == CallVerifySignature

SpecAuth == AuthInit /\ [][AuthNext]_vars

(***************************************************************************)
(* What one accepted payload leaves in an empty transactions table:        *)
(* validate, calculateDerivedFields, transactionRepo.create and the        *)
(* INSERT, over payloads that differ in amount, currency, status and       *)
(* country codes.                                                          *)
(***************************************************************************)
\* 100.50, 0.01, 0.004, 10.005, -5, 0, and 1e-7 and 1.5e-7 as toString prints them
PersistAmounts ==
    {Num(100500), Num(10), Num(4), Num(10005), Num(0 - 5000), Num(0),
     NumExp(<<"1", "e", "-", "7">>), NumExp(<<"1", ".", "5", "e", "-", "7">>)}

PersistCurrencies ==
    {<<"u", "s", "d">>, <<"E", "U", "R">>, <<"J", "p", "y">>, <<"X", "X", "X">>}

PersistStatuses ==
    {<<"p", "e", "n", "d", "i", "n", "g">>, <<"c", "o", "m", "p", "l", "e", "t", "e", "d">>,
     <<"f", "a", "i", "l", "e", "d">>, <<"F", "A", "I", "L", "E", "D">>, <<"d", "o", "n", "e">>}

PersistCountries == {<<"i", "n">>, <<"U", "S">>, <<"g", "B">>, <<"I", "N", "D">>}

PersistPayload(amount, currency, status, country) ==
    LET valid == ValidPayload(E1, T1, 0)
        data == Get(valid.data)
    IN  [valid EXCEPT !.data = Some(
            [data EXCEPT !.amount = amount,
                         !.currency = Str(currency),
                         !.status = Str(status),
                         !.sender = Some([Get(data.sender) EXCEPT
                                             !.country = Str(country)])])]

PersistInit ==
    /\ PipelineIdle
    /\ tsIn = NoTsIn
    /\ tsOut = None
    /\ verifyCall = NoVerifyCall
    /\ validateCall = NoValidateCall
    /\ calcCall = NoCalcCall
    /\ dupCall = NoDupCall
    /\ authCall = NoAuthCall
    /\ \E amount \in PersistAmounts, currency \in PersistCurrencies,
          status \in PersistStatuses, country \in PersistCountries, now \in Clock :
         persistCall = [payload |-> PersistPayload(amount, currency, status, country),
                        now |-> now, result |-> None]

\* processWebhook from validate to transactionRepo.save on an empty table whose
\* INSERT does not fail: the table afterwards.
PersistedBy(payload, now) ==
    IF IsSome(Validate(payload)) THEN {}
    ELSE LET derivedFields == CalculateDerivedFields(DataField(payload, "amount"))
             transaction == CreateTransaction(payload, derivedFields, now, NewId({}))
         IN  IF ~FitsDecimal(transaction.amount) THEN DbInsertFailed({}, transaction)
             ELSE DbInsert({}, transaction).table

CallPersist ==
    /\ persistCall.result = None
    /\ persistCall' = [persistCall EXCEPT
                          !.result = Some(PersistedBy(persistCall.payload,
                                                      persistCall.now))]
    /\ UNCHANGED <<pipelineVars, tsIn, tsOut, verifyCall, validateCall, calcCall,
                   dupCall, authCall>>

PersistNext == CallPersist

SpecPersist == PersistInit /\ [][PersistNext]_vars

(***************************************************************************)
(* Vocabulary of the properties.                                           *)
(***************************************************************************)
Done(r) == pc[r] = "done"

StatusOf(r) == Get(res[r]).status

\* The request passed the JSON middleware and verifySignature: processWebhook ran.
Authenticated(r) == IsSome(body[r]) /\ sigOk[r]

LastStoreCall(r) == storeCalls[r][Len(storeCalls[r])]

NoStoreFailure(r) == \A i \in 1..Len(storeCalls[r]) : storeCalls[r][i] # "fail"

\* r2 arrived after r1 was answered 200, with r1's event_id.
ReplayOf(r1, r2) ==
    /\ r1 \in answeredBefore[r2]
    /\ Authenticated(r1) /\ Authenticated(r2)
    /\ StatusOf(r1) = 200
    /\ Payload(r2).event_id = Payload(r1).event_id

RowsWithEventId(eventId) == {t \in transactions : t.event_id = eventId}

(***************************************************************************)
(* C1, as stated: of two authenticated submissions with the same event_id  *)
(* handled one after the other, the first answered 200, the second is      *)
(* answered 409 with the first record's id, transaction_id, status and     *)
(* processed_at whatever its body, and one Transaction is persisted        *)
(* (storage working during the second).                                    *)
(***************************************************************************)
C1_SecondAlways409 ==
    \A r1 \in Slots, r2 \in Slots :
        (Done(r2) /\ ReplayOf(r1, r2) /\ NoStoreFailure(r2))
        => /\ res[r2] = Some(ConflictResponse(Get(savedTransaction[r1])))
           /\ Cardinality(RowsWithEventId(Payload(r1).event_id)) = 1

(***************************************************************************)
(* C1, amended: exactly one Transaction with that event_id is persisted    *)
(* whatever the second body; the second is answered 409 with the first     *)
(* record's id, transaction_id, status and processed_at when its body      *)
(* passes validation and its duplicate lookup does not fail, and 400 with  *)
(* the validation error when its body fails validation.                    *)
(***************************************************************************)
C1_SecondValid409 ==
    \A r1 \in Slots, r2 \in Slots :
        (Done(r2) /\ ReplayOf(r1, r2))
        => /\ RowsWithEventId(Payload(r1).event_id) = {Get(savedTransaction[r1])}
           /\ savedTransaction[r2] = None
           /\ IF IsSome(Validate(Payload(r2)))
              THEN res[r2] = Some(ValidationResponse(Get(Validate(Payload(r2)))))
              ELSE NoStoreFailure(r2)
                   => res[r2] = Some(ConflictResponse(Get(savedTransaction[r1])))

\* A second submission with another body was answered 409 after the first's 200.
C1_Witness ==
    \E r1 \in Slots, r2 \in Slots :
        /\ Done(r2) /\ ReplayOf(r1, r2)
        /\ body[r2] # body[r1]
        /\ StatusOf(r2) = 409
        /\ Get(res[r2]).data.processed_at = Get(savedTransaction[r1]).processed_at

(***************************************************************************)
(* C2: in every reachable state no two persisted Transactions share an     *)
(* event_id and no two share a transaction_id.                             *)
(***************************************************************************)
C2_UniqueIds ==
    \A t \in transactions, u \in transactions :
        (t.event_id = u.event_id \/ t.transaction_id = u.transaction_id) => t = u

\* Two requests passed both lookups of checkDuplicate before either inserted;
\* one insert went through and the other hit the constraint.
C2_Witness ==
    \E r1 \in Slots, r2 \in Slots :
        /\ storeCalls[r1] = <<"miss", "miss", "saved">>
        /\ storeCalls[r2] = <<"miss", "miss", "unique">>

(***************************************************************************)
(* C3: a request whose insert hits the uniqueness constraint after it      *)
(* passed checkDuplicate ends with DuplicateTransactionError carrying the  *)
(* existing record and is answered 409, not 500.                           *)
(***************************************************************************)
C3_ClashAnswered409 ==
    \A r \in Slots :
        (Done(r) /\ storeCalls[r] = <<"miss", "miss", "unique">>)
        => /\ Get(error[r]).name = "DuplicateTransactionError"
           /\ StatusOf(r) = 409

(***************************************************************************)
(* C4: once persisted, a Transaction stays in the store with every field   *)
(* it was inserted with, and no Transaction added later has its event_id   *)
(* or its transaction_id.                                                  *)
(***************************************************************************)
C4_StoredNeverChanges ==
    [][\A t \in transactions :
          /\ t \in transactions'
          /\ \A u \in transactions' \ transactions :
                u.event_id # t.event_id /\ u.transaction_id # t.transaction_id]_vars

\* A replay with the same event_id and transaction_id and another body has been
\* answered, and the store holds the first record only.
C4_Witness ==
    \E r1 \in Slots, r2 \in Slots :
        /\ Done(r2) /\ ReplayOf(r1, r2)
        /\ DataField(Payload(r2), "transaction_id") = DataField(Payload(r1), "transaction_id")
        /\ DataField(Payload(r2), "amount") # DataField(Payload(r1), "amount")
        /\ ~IsSome(Validate(Payload(r2)))
        /\ transactions = {Get(savedTransaction[r1])}

AuditRowsOf(r, statuses) == {a \in auditLogs : a.id[1] = r /\ a.status \in statuses}

(***************************************************************************)
(* C5: every answered request, whatever its status, has left a received    *)
(* row and a processed or failed row in audit_logs.                        *)
(***************************************************************************)
C5_TwoAuditRows ==
    \A r \in Slots :
        Done(r) => /\ AuditRowsOf(r, {"received"}) # {}
                   /\ AuditRowsOf(r, {"processed", "failed"}) # {}

(***************************************************************************)
(* C6: a run of processWebhook makes one received audit write and, by the  *)
(* time it ends, exactly one more: processed if and only if the            *)
(* Transaction was saved, failed otherwise.                                *)
(***************************************************************************)
C6_OneTerminalAudit ==
    \A r \in Slots :
        /\ Len(auditCalls[r]) <= 2
        /\ Authenticated(r) =>
              /\ auditCalls[r] # <<>> /\ auditCalls[r][1].status = "received"
              /\ Done(r) <=> Len(auditCalls[r]) = 2
              /\ Done(r) => auditCalls[r][2].status =
                                IF IsSome(savedTransaction[r]) /\ LastStoreCall(r) = "saved"
                                THEN "processed" ELSE "failed"
        /\ Cardinality(AuditRowsOf(r, {"processed", "failed"})) <= 1

\* Two finished runs, one on the success path and one that failed on the
\* uniqueness constraint, each with its terminal row written.
C6_Witness ==
    \E r1 \in Slots, r2 \in Slots :
        /\ Done(r1) /\ Len(auditCalls[r1]) = 2
        /\ auditCalls[r1][2] = AuditCall("processed", TRUE, TRUE)
        /\ Done(r2) /\ Len(auditCalls[r2]) = 2
        /\ auditCalls[r2][2] = AuditCall("failed", TRUE, TRUE)
        /\ storeCalls[r2] = <<"miss", "miss", "unique">>

(***************************************************************************)
(* C7: what processWebhook returns or raises, what it leaves in the        *)
(* Transaction store and what the route answers are fixed by the payload   *)
(* and the results of the Transaction store calls alone: they are the same *)
(* whether the audit writes of the run succeeded or failed.                *)
(***************************************************************************)
\* The answer as the payload and the store calls fix it, audit left aside.
ExpectedResponse(r) ==
    LET payload == Payload(r)
        invalid == Validate(payload)
        n == Len(storeCalls[r])
    IN  IF IsSome(invalid) THEN Some(ErrorResponse(Get(invalid)))
        ELSE IF n = 0 THEN None
        ELSE IF storeCalls[r][n] = "saved"
        THEN Some(SuccessResponse(
                 CHOOSE t \in transactions : t.event_id = payload.event_id))
        ELSE IF storeCalls[r][n] = "hit" /\ n = 1
        THEN Some(ConflictResponse(
                 CHOOSE t \in transactions : t.event_id = payload.event_id))
        ELSE IF storeCalls[r][n] = "hit"
        THEN Some(ConflictResponse(
                 CHOOSE t \in transactions :
                     t.transaction_id = DataField(payload, "transaction_id")))
        ELSE Some(ServerErrorResponse)

C7_AuditFailureHarmless ==
    \A r \in Slots :
        (Done(r) /\ Authenticated(r))
        => /\ res[r] = ExpectedResponse(r)
           /\ IsSome(savedTransaction[r]) <=> StatusOf(r) = 200
           /\ IsSome(savedTransaction[r]) => Get(savedTransaction[r]) \in transactions
           /\ IsSome(error[r]) <=> StatusOf(r) # 200

\* A run whose two audit writes both failed has saved its Transaction and was
\* answered 200, and a run whose audit writes failed was answered 409.
C7_Witness ==
    \E r1 \in Slots, r2 \in Slots :
        /\ Done(r1) /\ StatusOf(r1) = 200
        /\ auditCalls[r1] = <<AuditCall("received", FALSE, FALSE),
                           AuditCall("processed", FALSE, FALSE)>>
        /\ Done(r2) /\ StatusOf(r2) = 409
        /\ auditCalls[r2] = <<AuditCall("received", FALSE, FALSE),
                           AuditCall("failed", FALSE, FALSE)>>

(***************************************************************************)
(* C8: every persisted Transaction was saved by a request whose signature  *)
(* verified, and a request whose signature header is missing or does not   *)
(* verify makes no call to the Transaction store and saves nothing.        *)
(***************************************************************************)
C8_VerifiedBeforePersisted ==
    /\ \A t \in transactions :
          \E r \in Slots : sigOk[r] /\ savedTransaction[r] = Some(t)
    /\ \A r \in Slots :
          ~sigOk[r] => /\ savedTransaction[r] = None
                       /\ storeCalls[r] = <<>>
                       /\ pc[r] \in {"idle", "done"}

\* A request with a well-formed body and no valid signature has been answered
\* while another request's Transaction is stored.
C8_Witness ==
    \E r1 \in Slots, r2 \in Slots :
        /\ Done(r1) /\ ~sigOk[r1] /\ IsSome(body[r1])
        /\ ~IsSome(Validate(Payload(r1)))
        /\ IsSome(savedTransaction[r2])
        /\ transactions = {Get(savedTransaction[r2])}

(***************************************************************************)
(* C9: every request whose signature header is missing or does not verify  *)
(* is answered 401, whatever its body.                                     *)
(***************************************************************************)
C9_Unauthenticated401 ==
    \A r \in Slots : (Done(r) /\ ~sigOk[r]) => StatusOf(r) = 401

(***************************************************************************)
(* C10: with the decimal text of an integer t as timestamp and the HMAC of *)
(* "<t>.<body>" as signature, verifyWithTimestamp returns true exactly     *)
(* when |now - t| <= tolerance.                                            *)
(***************************************************************************)
C10_ToleranceWindow ==
    \A t \in TsIntegers :
        (/\ IsSome(tsOut)
         /\ tsIn.timestamp = Dec(t)
         /\ tsIn.receivedSignature =
                HmacHex(Secret, Dec(t) \o <<".">> \o tsIn.payload))
        => (Get(tsOut) <=> Abs(tsIn.currentTime - t) <= tsIn.toleranceSeconds)

\* A correctly signed timestamp exactly tolerance seconds in the future verified.
C10_Witness ==
    \E t \in TsIntegers :
        /\ tsOut = Some(TRUE)
        /\ tsIn.timestamp = Dec(t)
        /\ tsIn.toleranceSeconds > 0
        /\ t - tsIn.currentTime = tsIn.toleranceSeconds

(***************************************************************************)
(* C11: verify returns a boolean (it never raises), true for the hex HMAC  *)
(* of the body under the shared secret and false for every other header:   *)
(* one that differs from it in a position or in length, and the correct    *)
(* signature of any other body.                                            *)
(***************************************************************************)
C11_VerifyExact ==
    IsSome(verifyCall.result)
    => /\ Get(verifyCall.result) \in BOOLEAN
       /\ Get(verifyCall.result) <=> verifyCall.how = "correct"
       /\ Get(verifyCall.result)
             <=> verifyCall.receivedSignature = HmacHex(Secret, verifyCall.payload)

\* verify has refused, for the body "A", the correct signature of the body that
\* has one more byte.
C11_Witness ==
    /\ verifyCall.result = Some(FALSE)
    /\ verifyCall.how = "other body"
    /\ verifyCall.payload = <<"A">>
    /\ verifyCall.receivedSignature = HmacHex(Secret, <<"A", " ">>)

(***************************************************************************)
(* C12: the answer to an authenticated request is fixed by the outcome of  *)
(* processWebhook: 200 when it returned a saved Transaction, 409 when it   *)
(* raised DuplicateTransactionError, 400 with the error's field and        *)
(* message when it raised ValidationError, and for every other error 500   *)
(* with the message "Failed to process webhook" and nothing else.          *)
(***************************************************************************)
C12_StatusByOutcome ==
    \A r \in Slots :
        (Done(r) /\ Authenticated(r))
        => LET answer == Get(res[r])
           IN  IF error[r] = None
               THEN /\ IsSome(savedTransaction[r])
                    /\ answer.status = 200
                    /\ answer.data.id = Get(savedTransaction[r]).id
               ELSE IF Get(error[r]).name = "DuplicateTransactionError"
               THEN answer.status = 409
               ELSE IF Get(error[r]).name = "ValidationError"
               THEN /\ answer.status = 400
                    /\ answer.field = Get(error[r]).field
                    /\ answer.message = Get(error[r]).message
               ELSE answer = [status |-> 500, error |-> "Internal Server Error",
                              message |-> "Failed to process webhook"]

\* Two requests were answered 500 with the same body, one after a TypeError and
\* one after a storage failure.
C12_Witness ==
    \E r1 \in Slots, r2 \in Slots :
        /\ Done(r1) /\ Done(r2)
        /\ error[r1] = Some(TypeError) /\ error[r2] = Some(StorageError)
        /\ StatusOf(r1) = 500 /\ res[r1] = res[r2]

\* No request other than r has saved a Transaction with an id of r's payload.
NoOtherRecord(r) ==
    \A q \in Slots \ {r} :
        IsSome(savedTransaction[q])
        => /\ Get(savedTransaction[q]).event_id # Payload(r).event_id
           /\ Get(savedTransaction[q]).transaction_id
                 # DataField(Payload(r), "transaction_id")

\* r2 arrived after r1 was answered, with r1's event_id and transaction_id.
RetryOf(r1, r2) ==
    /\ r1 \in answeredBefore[r2]
    /\ Authenticated(r1) /\ Authenticated(r2)
    /\ Payload(r2).event_id = Payload(r1).event_id
    /\ DataField(Payload(r2), "transaction_id") = DataField(Payload(r1), "transaction_id")

(***************************************************************************)
(* C13: a request rejected with a validation failure has made no call to   *)
(* the Transaction store and left it as it was; a later request with the   *)
(* same event_id and transaction_id and a valid payload is then answered   *)
(* 200 and its Transaction is stored (the store working, no third request  *)
(* having stored these ids).                                               *)
(***************************************************************************)
C13_RetryAfterValidationFailure ==
    \A r1 \in Slots :
        (Done(r1) /\ Authenticated(r1) /\ IsSome(error[r1])
         /\ Get(error[r1]).name = "ValidationError")
        => /\ StatusOf(r1) = 400
           /\ storeCalls[r1] = <<>> /\ savedTransaction[r1] = None
           /\ \A t \in transactions : \E q \in Slots \ {r1} : savedTransaction[q] = Some(t)
           /\ \A r2 \in Slots :
                 (/\ Done(r2) /\ RetryOf(r1, r2)
                  /\ ~IsSome(Validate(Payload(r2)))
                  /\ NoStoreFailure(r2) /\ NoOtherRecord(r2))
                 => /\ StatusOf(r2) = 200
                    /\ RowsWithEventId(Payload(r2).event_id) = {Get(savedTransaction[r2])}

\* A payload with amount -5 was answered 400, and the same ids with a valid
\* payload were then answered 200.
C13_Witness ==
    \E r1 \in Slots, r2 \in Slots :
        /\ Done(r1) /\ Done(r2) /\ RetryOf(r1, r2)
        /\ StatusOf(r1) = 400 /\ Get(res[r1]).field = "amount"
        /\ StatusOf(r2) = 200
        /\ transactions = {Get(savedTransaction[r2])}

(***************************************************************************)
(* C14: a request whose insert failed with a storage error that is no      *)
(* uniqueness clash is answered 500 and has left no Transaction; a retry   *)
(* of the same request whose store calls succeed is answered 200 and its   *)
(* Transaction is stored, not reported as a duplicate (no third request    *)
(* having stored these ids).                                               *)
(***************************************************************************)
C14_RetryAfterStorageFailure ==
    \A r1 \in Slots :
        (Done(r1) /\ Authenticated(r1) /\ storeCalls[r1] = <<"miss", "miss", "fail">>)
        => /\ StatusOf(r1) = 500
           /\ savedTransaction[r1] = None
           /\ \A t \in transactions : \E q \in Slots \ {r1} : savedTransaction[q] = Some(t)
           /\ \A r2 \in Slots :
                 (/\ Done(r2) /\ RetryOf(r1, r2) /\ body[r2] = body[r1]
                  /\ NoStoreFailure(r2) /\ NoOtherRecord(r2))
                 => /\ StatusOf(r2) = 200
                    /\ RowsWithEventId(Payload(r2).event_id) = {Get(savedTransaction[r2])}

\* The insert of a request failed, it was answered 500, and the same request
\* sent again was answered 200.
C14_Witness ==
    \E r1 \in Slots, r2 \in Slots :
        /\ Done(r1) /\ Done(r2) /\ RetryOf(r1, r2) /\ body[r2] = body[r1]
        /\ storeCalls[r1] = <<"miss", "miss", "fail">> /\ StatusOf(r1) = 500
        /\ storeCalls[r2] = <<"miss", "miss", "saved">> /\ StatusOf(r2) = 200
        /\ transactions = {Get(savedTransaction[r2])}

\* The required field whose absence validateRequired meets first.
FirstMissingName(input) ==
    IF input.shape = "no data" THEN "data.transaction_id"
    ELSE IF input.shape = "no sender" THEN "data.sender.id"
    ELSE IF input.shape = "no receiver" THEN "data.receiver.id"
    ELSE RequiredNames[CHOOSE i \in input.missing : \A j \in input.missing : i <= j]

\* The rules the payload made from input violates: 1 is the required fields.
ViolatedRules(input) ==
    input.broken \cup (IF input.missing # {} \/ input.shape # "full" THEN {1} ELSE {})

EarliestRule(input) ==
    CHOOSE k \in ViolatedRules(input) : \A j \in ViolatedRules(input) : k <= j

\* The rule an error of validate belongs to, by its field.
RuleOfError(err) ==
    IF \E i \in 1..Len(RequiredNames) : RequiredNames[i] = err.field THEN 1
    ELSE CASE err.field = "amount" -> 2
           [] err.field = "currency" -> 3
           [] err.field = "status" -> 4
           [] err.field = "country_0" -> 5
           [] err.field = "country_1" -> 6
           [] err.field = "sender.email" -> 7
           [] err.field = "receiver.email" -> 8
           [] OTHER -> 0

(***************************************************************************)
(* C15: validate accepts a payload that violates no rule and rejects every *)
(* other payload with one ValidationError, that of the earliest violated   *)
(* rule in the order required fields, amount, currency, status, sender     *)
(* country, receiver country, sender email, receiver email; among several  *)
(* missing required fields it names the first.                             *)
(***************************************************************************)
C15_EarliestRuleReported ==
    IsSome(validateCall.result)
    => LET input == validateCall.input
           thrown == Get(validateCall.result)
       IN  IF ViolatedRules(input) = {} THEN thrown = None
           ELSE /\ IsSome(thrown)
                /\ Get(thrown).name = "ValidationError"
                /\ RuleOfError(Get(thrown)) = EarliestRule(input)
                /\ EarliestRule(input) = 1 => Get(thrown).field = FirstMissingName(input)

\* A payload that breaks the currency rule and every later rule was rejected
\* with the currency error.
C15_Witness ==
    /\ validateCall.input.shape = "full" /\ validateCall.input.missing = {}
    /\ validateCall.input.broken = 3..8
    /\ IsSome(validateCall.result) /\ IsSome(Get(validateCall.result))
    /\ Get(Get(validateCall.result)).field = "currency"

\* The dotted path of the field a rule looks at.
RulePath(rule) ==
    CASE rule = 2 -> "data.amount"
      [] rule = 3 -> "data.currency"
      [] rule = 4 -> "data.status"
      [] rule = 5 -> "data.sender.country"
      [] rule = 6 -> "data.receiver.country"
      [] rule = 7 -> "data.sender.email"
      [] rule = 8 -> "data.receiver.email"

(***************************************************************************)
(* C16: the field of every ValidationError raised by validate is the       *)
(* dotted path of the offending field in the payload.                      *)
(***************************************************************************)
C16_DottedFieldPath ==
    (IsSome(validateCall.result) /\ IsSome(Get(validateCall.result)))
    => Get(Get(validateCall.result)).field =
          IF EarliestRule(validateCall.input) = 1
          THEN FirstMissingName(validateCall.input)
          ELSE RulePath(EarliestRule(validateCall.input))

\* An object payload in which every required field is present.
AllRequiredPresent(payload) ==
    /\ payload.kind = "object"
    /\ \A i \in 1..Len(RequiredFields(payload)) : ~IsMissing(RequiredFields(payload)[i][2])

\* The currency matches none of USD, EUR, GBP, INR, JPY in any letter case.
CurrencyOutsideList(currency) ==
    currency.t = "string"
    /\ ToUpperCase(currency.s) \notin
          {<<"U", "S", "D">>, <<"E", "U", "R">>, <<"G", "B", "P">>,
           <<"I", "N", "R">>, <<"J", "P", "Y">>}

\* The request was answered 400 naming field, and has stored and read nothing.
Rejected400(r, field) ==
    /\ StatusOf(r) = 400
    /\ Get(res[r]).error = "Validation Error"
    /\ Get(res[r]).field = field
    /\ savedTransaction[r] = None
    /\ storeCalls[r] = <<>>
    /\ \A t \in transactions : t.event_id = Payload(r).event_id
          => \E q \in Slots \ {r} : savedTransaction[q] = Some(t)

(***************************************************************************)
(* C17: an authenticated payload with every required field present and a  *)
(* negative amount is answered 400 with field "amount"; one with a valid   *)
(* amount and a currency that matches none of USD, EUR, GBP, INR, JPY      *)
(* (letter case ignored, as the validator compares) is answered 400 with   *)
(* field "currency"; in both cases the request persists no Transaction.    *)
(***************************************************************************)
C17_AmountAndCurrency400 ==
    \A r \in Slots :
        (Done(r) /\ Authenticated(r) /\ AllRequiredPresent(Payload(r)))
        => LET amount == DataField(Payload(r), "amount")
               currency == DataField(Payload(r), "currency")
           IN  /\ (amount.t = "number" /\ amount.n < 0) => Rejected400(r, "amount")
               /\ (amount.t = "number" /\ amount.n > 0 /\ amount.n % 10 = 0
                   /\ CurrencyOutsideList(currency))
                  => Rejected400(r, "currency")

\* A payload with amount -5 and one with currency XXX have both been answered.
C17_Witness ==
    \E r1 \in Slots, r2 \in Slots :
        /\ Done(r1) /\ Authenticated(r1) /\ DataField(Payload(r1), "amount") = Num(0 - 5000)
        /\ Get(res[r1]).field = "amount"
        /\ Done(r2) /\ Authenticated(r2)
        /\ DataField(Payload(r2), "currency") = Str(<<"X", "X", "X">>)
        /\ Get(res[r2]).field = "currency"
        /\ transactions = {}

(***************************************************************************)
(* C18: for a positive amount of whole cents, processing_fee is a whole    *)
(* number of cents within half a cent of 2% of the amount, net_amount is   *)
(* the amount minus that fee, so that fee + net = amount and               *)
(* 0 <= fee <= amount; for 100.50 the fee is 2.01 and the net 98.49.       *)
(* (Numbers are in thousandths: one cent is 10.)                           *)
(***************************************************************************)
C18_FeeAndNet ==
    IsSome(calcCall.result)
    => LET amount == calcCall.amount.n
           fee == Get(calcCall.result).processing_fee.n
           net == Get(calcCall.result).net_amount.n
       IN  /\ fee % 10 = 0 /\ net % 10 = 0
           /\ Abs(100 * fee - 2 * amount) <= 500
           /\ net = amount - fee
           /\ fee + net = amount
           /\ 0 <= fee /\ fee <= amount
           /\ amount = 100500 => fee = 2010 /\ net = 98490

\* calculateDerivedFields(100.50) has returned.
C18_Witness ==
    /\ calcCall.amount = Num(100500)
    /\ IsSome(calcCall.result)
    /\ Get(calcCall.result).processing_fee = Num(2010)

(***************************************************************************)
(* C19: for every payload handed to processWebhook, payloads that then     *)
(* fail validation included, an audit row with status received is stored   *)
(* by the first step of the run, before validation and before the terminal *)
(* audit call (the storage accepting writes at that moment).               *)
(***************************************************************************)
C19_ReceivedRowStored ==
    \A r \in Slots :
        (Authenticated(r) /\ pc[r] # "idle" /\ auditCalls[r][1].dbOk)
        => /\ auditCalls[r][1].status = "received"
           /\ AuditRowsOf(r, {"received"}) # {}

\* The steps a run of processWebhook may take, by the position it is at:
\* "validate" after the received audit call, "checkTxn" between the two lookups
\* of checkDuplicate, "save" before fee computation and insert, "processed"
\* after the insert, "failed" in the catch block, "done" when answered.
StageSteps ==
    {<<"idle", "validate">>, <<"idle", "done">>,
     <<"validate", "checkTxn">>, <<"validate", "failed">>, <<"validate", "done">>,
     <<"checkTxn", "save">>, <<"checkTxn", "failed">>,
     <<"save", "processed">>, <<"save", "failed">>,
     <<"processed", "done">>,
     <<"failed", "done">>}

\* What the calls made so far say about the order of the stages of request r.
StagesInOrder(r) ==
    /\ auditCalls[r] # <<>> => auditCalls[r][1].status = "received"
    /\ storeCalls[r] # <<>> => /\ auditCalls[r] # <<>>
                               /\ ~IsSome(Validate(Payload(r)))
    /\ Len(storeCalls[r]) <= 3
    /\ Len(storeCalls[r]) >= 2 => storeCalls[r][1] = "miss"
    /\ Len(storeCalls[r]) = 3 => /\ storeCalls[r][2] = "miss"
                                 /\ storeCalls[r][3] \in {"saved", "unique", "fail"}
    /\ IsSome(savedTransaction[r]) <=> storeCalls[r] = <<"miss", "miss", "saved">>
    /\ IsSome(savedTransaction[r]) =>
          /\ Get(savedTransaction[r]).processing_fee =
                CalculateDerivedFields(DataField(Payload(r), "amount")).processing_fee
          /\ Get(savedTransaction[r]).net_amount =
                CalculateDerivedFields(DataField(Payload(r), "amount")).net_amount
    /\ \A k \in 1..Len(auditCalls[r]) :
          /\ auditCalls[r][k].status = "processed" => k = 2 /\ IsSome(savedTransaction[r])
          /\ auditCalls[r][k].status = "failed" => k = 2 /\ ~IsSome(savedTransaction[r])
          /\ k = 2 => pc[r] = "done"

(***************************************************************************)
(* C20: every run of processWebhook takes its stages in the order received *)
(* audit, validation, idempotency check, fee computation, insert,          *)
(* processed audit, and leaves this order only for the failed terminal:    *)
(* no duplicate lookup before validation has passed, no insert before both *)
(* lookups have passed, the fee computed before the insert, the terminal   *)
(* audit call last.                                                        *)
(***************************************************************************)
C20_StageOrder ==
    /\ [](\A r \in Slots : StagesInOrder(r))
    /\ [][\A r \in Slots : pc'[r] # pc[r] => <<pc[r], pc'[r]>> \in StageSteps]_vars

\* One run has gone through every stage to the processed audit call, and one
\* has left for the failed terminal at the idempotency check.
C20_Witness ==
    \E r1 \in Slots, r2 \in Slots :
        /\ Done(r1) /\ storeCalls[r1] = <<"miss", "miss", "saved">>
        /\ Len(auditCalls[r1]) = 2 /\ auditCalls[r1][2].status = "processed"
        /\ Done(r2) /\ storeCalls[r2] = <<"miss", "hit">>
        /\ Len(auditCalls[r2]) = 2 /\ auditCalls[r2][2].status = "failed"

(***************************************************************************)
(* C21: checkDuplicate raises DuplicateTransactionError if and only if a   *)
(* stored Transaction has the given event_id or the given transaction_id;  *)
(* the error carries the record with the event_id when there is one, also  *)
(* when another record has the transaction_id, and otherwise the record    *)
(* with the transaction_id.                                                *)
(***************************************************************************)
C21_EventIdFirst ==
    IsSome(dupCall.result)
    => LET thrown == Get(dupCall.result)
           byEvent == {t \in dupCall.table : t.event_id = dupCall.eventId}
           byTxn == {t \in dupCall.table : t.transaction_id = dupCall.transactionId}
       IN  /\ IsSome(thrown) <=> (byEvent \cup byTxn) # {}
           /\ IsSome(thrown) =>
                 /\ Get(thrown).name = "DuplicateTransactionError"
                 /\ IsSome(Get(thrown).existingTransaction)
                 /\ Get(Get(thrown).existingTransaction)
                       \in (IF byEvent # {} THEN byEvent ELSE byTxn)

\* One stored record has the event_id, another the transaction_id, and the
\* error carries the first.
C21_Witness ==
    /\ IsSome(dupCall.result) /\ IsSome(Get(dupCall.result))
    /\ dupCall.eventId = Str(E1) /\ dupCall.transactionId = Str(T2)
    /\ dupCall.table = {DupRow(E1, T1, 1), DupRow(E2, T2, 2)}
    /\ Get(Get(dupCall.result)).existingTransaction = Some(DupRow(E1, T1, 1))

IsDecimalInteger(s) ==
    LET d == IF s # <<>> /\ Head(s) = "-" THEN Tail(s) ELSE s
    IN  d # <<>> /\ \A i \in 1..Len(d) : IsDigit(d[i])

(***************************************************************************)
(* C23: verifyWithTimestamp returns false for every timestamp header that  *)
(* is not a decimal integer from its first character to its last (empty,   *)
(* no number, digits followed by other characters), whatever the           *)
(* signature, that of "<header>.<body>" included.                          *)
(***************************************************************************)
C23_NonIntegerHeaderRefused ==
    (IsSome(tsOut) /\ ~IsDecimalInteger(tsIn.timestamp)) => Get(tsOut) = FALSE

(***************************************************************************)
(* C24: every authenticated request whose decoded body lacks a required    *)
(* field (a body that is null, is no object or has no data included) ends  *)
(* with a ValidationError naming a required field and is answered 400,     *)
(* never 500.                                                              *)
(***************************************************************************)
C24_MissingFieldAnswered400 ==
    \A r \in Slots :
        (Done(r) /\ Authenticated(r) /\ ~AllRequiredPresent(Payload(r)))
        => /\ IsSome(error[r])
           /\ Get(error[r]).name = "ValidationError"
           /\ \E i \in 1..Len(RequiredNames) : RequiredNames[i] = Get(error[r]).field
           /\ StatusOf(r) = 400

\* C25: every persisted Transaction has a strictly positive amount, a currency
\* of the list in upper case, a status among pending, completed and failed,
\* and two country codes of two upper-case letters.
C25_PersistedFieldsValid ==
    IsSome(persistCall.result) =>
        \A t \in Get(persistCall.result) :
            /\ t.amount.t = "number" /\ t.amount.n > 0
            /\ t.currency.s \in {<<"U", "S", "D">>, <<"E", "U", "R">>, <<"G", "B", "P">>,
                                  <<"I", "N", "R">>, <<"J", "P", "Y">>}
            /\ t.status.s \in {<<"p", "e", "n", "d", "i", "n", "g">>,
                                <<"c", "o", "m", "p", "l", "e", "t", "e", "d">>,
                                <<"f", "a", "i", "l", "e", "d">>}
            /\ \A c \in {t.sender_country, t.receiver_country} :
                   Len(c.s) = 2 /\ \A i \in 1..2 : IsUpper(c.s[i])

\* C26: every persisted Transaction has a processed_at (the time of the save),
\* a processing_fee and a net_amount equal to calculateDerivedFields of its
\* own amount, and a null exchange_rate.
C26_DerivedFieldsStored ==
    IsSome(persistCall.result) =>
        \A t \in Get(persistCall.result) :
            /\ t.processed_at = persistCall.now
            /\ t.processing_fee.t = "number"
            /\ t.net_amount.t = "number"
            /\ t.processing_fee = CalculateDerivedFields(t.amount).processing_fee
            /\ t.net_amount = CalculateDerivedFields(t.amount).net_amount
            /\ t.processing_fee =
                  CalculateDerivedFields(DataField(persistCall.payload, "amount")).processing_fee
            /\ t.exchange_rate = Null

\* A payload of 100.50 was persisted with fee 2.01 and net 98.49.
C26_Witness ==
    /\ IsSome(persistCall.result)
    /\ DataField(persistCall.payload, "amount") = Num(100500)
    /\ \E t \in Get(persistCall.result) :
          /\ t.processing_fee = Num(2010)
          /\ t.net_amount = Num(98490)
          /\ t.exchange_rate = Null
          /\ t.processed_at = persistCall.now

\* The error of request r is the one its failing stage raises: validate's own
\* error, the storage error of the failed call, or a DuplicateTransactionError
\* carrying the stored row that the hitting lookup returned.
ErrorIsOfStage(r) ==
    LET e == Get(error[r])
    IN  IF IsSome(Validate(Payload(r))) THEN e = Get(Validate(Payload(r)))
        ELSE /\ storeCalls[r] # <<>>
             /\ CASE LastStoreCall(r) = "fail" -> e = StorageError
                  [] LastStoreCall(r) = "unique" -> e = UniqueViolation
                  [] LastStoreCall(r) = "hit" ->
                        \E t \in transactions :
                            /\ e = DuplicateTransactionError(t)
                            /\ IF Len(storeCalls[r]) = 1
                               THEN t.event_id = Payload(r).event_id
                               ELSE t.transaction_id =
                                       DataField(Payload(r), "transaction_id")
                  [] OTHER -> FALSE

\* C27: the error that reaches the caller is the error the stage raised (same
\* kind, field, message and carried record) and the response is built from it;
\* every failed audit entry holds that error's message; received and processed
\* entries hold a null error_message.
C27_ErrorPreserved ==
    \A r \in Slots :
        Authenticated(r) =>
            /\ IsSome(error[r]) => ErrorIsOfStage(r)
            /\ (Done(r) /\ IsSome(error[r])) => res[r] = Some(ErrorResponse(Get(error[r])))
            /\ \A a \in AuditRowsOf(r, {"failed"}) :
                   /\ IsSome(error[r])
                   /\ a.error_message = Some(Get(error[r]).message)
            /\ \A a \in AuditRowsOf(r, {"received", "processed"}) :
                   a.error_message = None

\* A request ended with a DuplicateTransactionError carrying a stored row, and
\* its failed audit entry holds the message; its received entry holds none.
C27_Witness ==
    \E r \in Slots :
        /\ Done(r)
        /\ IsSome(error[r])
        /\ Get(error[r]).name = "DuplicateTransactionError"
        /\ Get(Get(error[r]).existingTransaction) \in transactions
        /\ \E a \in AuditRowsOf(r, {"failed"}) :
              a.error_message = Some("Transaction already processed")
        /\ \E a \in AuditRowsOf(r, {"received"}) : a.error_message = None

\* The calls of logWebhookEvent of request r with the given status.
AuditCallsWith(r, status) ==
    {k \in 1..Len(auditCalls[r]) : auditCalls[r][k].status = status}

\* Request r was answered after exactly one terminal outcome: processed with a
\* saved Transaction, no error and a 200, or failed with an error, nothing
\* saved and no 200.
OneTerminalOutcome(r) ==
    /\ IsSome(res[r])
    /\ Cardinality(AuditCallsWith(r, "processed"))
          + Cardinality(AuditCallsWith(r, "failed")) = 1
    /\ IF AuditCallsWith(r, "processed") # {}
       THEN IsSome(savedTransaction[r]) /\ ~IsSome(error[r]) /\ StatusOf(r) = 200
       ELSE ~IsSome(savedTransaction[r]) /\ IsSome(error[r]) /\ StatusOf(r) # 200

\* No stage of the run of request r ran twice: one received audit call, at
\* most one lookup by event_id, one by transaction_id and one insert.
EachStageAtMostOnce(r) ==
    /\ Cardinality(AuditCallsWith(r, "received")) <= 1
    /\ Cardinality(AuditCallsWith(r, "processed")) <= 1
    /\ Cardinality(AuditCallsWith(r, "failed")) <= 1
    /\ Len(storeCalls[r]) <= 3
    /\ \A i \in 1..Len(storeCalls[r]) :
          storeCalls[r][i] \in {"saved", "unique"} => i = 3

\* C28: when every storage call returns or fails, every run of processWebhook
\* eventually ends, in exactly one terminal outcome, having run each stage at
\* most once; an answered request takes no further step (no retry).
C28_RunTerminates ==
    /\ [](\A r \in Slots :
             /\ EachStageAtMostOnce(r)
             /\ (Done(r) /\ Authenticated(r)) => OneTerminalOutcome(r))
    /\ [][\A r \in Slots : Done(r) => (pc'[r] = "done" /\ res'[r] = res[r]
                                        /\ storeCalls'[r] = storeCalls[r]
                                        /\ auditCalls'[r] = auditCalls[r])]_vars
    /\ \A r \in Slots : (pc[r] \notin {"idle", "done"}) ~> Done(r)

\* A run went through both lookups and a failed insert, and was answered after
\* one failed audit call.
C28_Witness ==
    \E r \in Slots :
        /\ Done(r)
        /\ Authenticated(r)
        /\ Len(storeCalls[r]) = 3
        /\ LastStoreCall(r) = "fail"
        /\ Cardinality(AuditCallsWith(r, "failed")) = 1
        /\ StatusOf(r) = 500

\* The requests answered 200.
Answered200 == {r \in Slots : Done(r) /\ StatusOf(r) = 200}

\* The requests whose insert succeeded.
Savers == {r \in Slots : IsSome(savedTransaction[r])}

\* Requests r1 and r2 were in flight at the same time: neither arrived after
\* the other was answered.
Concurrent(r1, r2) ==
    /\ r1 # r2
    /\ pc[r1] # "idle" /\ pc[r2] # "idle"
    /\ r1 \notin answeredBefore[r2]
    /\ r2 \notin answeredBefore[r1]

\* The payloads of r1 and r2 have the same event_id or the same transaction_id.
SharesId(r1, r2) ==
    \/ Payload(r1).event_id = Payload(r2).event_id
    \/ DataField(Payload(r1), "transaction_id") = DataField(Payload(r2), "transaction_id")

\* C29: under any interleaving of the requests, every 200 answers the
\* request that stored one Transaction, which the table holds and the response
\* describes; every stored Transaction was stored by exactly one request,
\* which is answered 200 once answered; so when all requests are answered the
\* 200s and the stored Transactions are as many.  Of the requests that share
\* an event_id or a transaction_id at most one is answered 200.
C29_OneToOne ==
    /\ \A r \in Answered200 :
          /\ r \in Savers
          /\ StoredRow(Get(savedTransaction[r])) \in transactions
          /\ res[r] = Some(SuccessResponse(Get(savedTransaction[r])))
    /\ \A t \in transactions :
          \E r \in Savers :
              /\ StoredRow(Get(savedTransaction[r])) = t
              /\ pc[r] \in {"processed", "done"}
              /\ Done(r) => r \in Answered200
              /\ \A q \in Savers : StoredRow(Get(savedTransaction[q])) = t => q = r
    /\ Cardinality(Savers) = Cardinality(transactions)
    /\ (\A r \in Slots : pc[r] \in {"idle", "done"})
          => Cardinality(Answered200) = Cardinality(transactions)
    /\ \A r1, r2 \in Answered200 : r1 # r2 => ~SharesId(r1, r2)

\* Two requests with the same ids were in flight together and both reached
\* the insert; one is answered 200, the other is not, and one row is stored.
C29_Witness ==
    \E r1, r2 \in Slots :
        /\ Concurrent(r1, r2)
        /\ Done(r1) /\ Done(r2)
        /\ Authenticated(r1) /\ Authenticated(r2)
        /\ SharesId(r1, r2)
        /\ Len(storeCalls[r1]) = 3 /\ Len(storeCalls[r2]) = 3
        /\ StatusOf(r1) = 200
        /\ StatusOf(r2) # 200
        /\ Cardinality(transactions) = 1

\* C30: a processed audit entry exists for an event_id only when a
\* Transaction with that event_id is stored, and the audit log only grows: no
\* step changes or removes an entry.
C30_ProcessedImpliesStored ==
    /\ [](\A a \in auditLogs :
             a.status = "processed"
             => \E t \in transactions : t.event_id = a.event_id)
    /\ [][auditLogs \subseteq auditLogs']_vars

\* A request has its received and its processed entry in the audit log, and
\* its Transaction is stored.
C30_Witness ==
    \E r \in Slots :
        /\ Done(r)
        /\ AuditRowsOf(r, {"received"}) # {}
        /\ \E a \in AuditRowsOf(r, {"processed"}) :
              \E t \in transactions :
                  t.event_id = a.event_id /\ t = StoredRow(Get(savedTransaction[r]))

====
